---- MODULE Spec2Model ----
(***************************************************************************)
(* Model of the lead pipeline of galzu-lead-finder: the record normalizer  *)
(* (db._normalize_row), the identity & merge resolver                      *)
(* (db.upsert_leads_from_rows), the restricted operator edit               *)
(* (db.update_lead), the audit write (db.update_website_audit), the       *)
(* website audit (audit.audit_website, audit.audit_leads), the audit sweep *)
(* (main._audit_job) and the lead score (scoring.score_row).               *)
(*                                                                         *)
(* Python values are modelled as records [t, s, i]: t is the type tag      *)
(* ("none", "str", "int", "list"), s the text of a str as a sequence of    *)
(* characters, i the number of an int.  A character is a one-element       *)
(* string; the literals the code searches for ("instagram.com/",           *)
(* "facebook.com/", the source tags) are single characters of the          *)
(* alphabet, so that `in`, split and strip work on sequences.              *)
(***************************************************************************)
EXTENDS Integers, Sequences, FiniteSets, TLC

VARIABLES
    leads,      \* the leads table: its rows in insertion order
    seq,        \* sqlite_sequence of leads: the last id AUTOINCREMENT handed out
    clock,      \* time.time() as seen by _now_unix
    pc,         \* per ingestion thread: "idle" | "loop" | "done" | "raised"
    job,        \* per ingestion thread: the locals of upsert_leads_from_rows
    last,       \* the last database operation and the row it touched (history)
    ops,        \* number of operations issued so far (bounds the exploration)
    nin,        \* normalizer pipeline: the raw row and the source tag
    nout,       \* normalizer pipeline: stage and results
    aud,        \* website audit: the sweep, audit_leads and the audit_website call in it
    sc,         \* scoring: one row and the calls of score_row on it
    srv,        \* the run endpoints: the two locks, the runs table, handlers and jobs
    gr          \* meta_api.graph_get: one call and its request attempts

vars == <<leads, seq, clock, pc, job, last, ops, nin, nout, aud, sc, srv, gr>>

---------------------------------------------------------------------------
(* Python values                                                           *)

None == [t |-> "none", s |-> <<>>, i |-> 0]
S(x) == [t |-> "str", s |-> x, i |-> 0]
I(n) == [t |-> "int", s |-> <<>>, i |-> n]
\* a list of str
L(xs) == [t |-> "list", s |-> xs, i |-> 0]
E == S(<<>>)

\* bool(v)
Truthy(v) ==
    CASE v.t = "none" -> FALSE
      [] v.t = "str" -> v.s # <<>>
      [] v.t = "int" -> v.i # 0
      [] v.t = "list" -> v.s # <<>>

\* a or b
Or(a, b) == IF Truthy(a) THEN a ELSE b

---------------------------------------------------------------------------
(* str methods                                                             *)

Ws == {" "}
IG == "instagram.com/"
FB == "facebook.com/"

RECURSIVE LStripSet(_, _)
LStripSet(s, C) ==
    IF s = <<>> THEN s
    ELSE IF Head(s) \in C THEN LStripSet(Tail(s), C) ELSE s

RECURSIVE RStripSet(_, _)
RStripSet(s, C) ==
    IF s = <<>> THEN s
    ELSE IF s[Len(s)] \in C THEN RStripSet(SubSeq(s, 1, Len(s) - 1), C) ELSE s

\* s.strip(chars)
StripSet(s, C) == RStripSet(LStripSet(s, C), C)
\* s.strip()
Strip(s) == StripSet(s, Ws)

\* c in s, for a literal c
Contains(s, c) == \E k \in 1..Len(s) : s[k] = c

FirstIndex(s, c) == CHOOSE k \in 1..Len(s) : s[k] = c /\ \A j \in 1..(k - 1) : s[j] # c

\* s.split(c, 1)[1], for s containing c
AfterFirst(s, c) == SubSeq(s, FirstIndex(s, c) + 1, Len(s))
\* s.split(c, 1)[0]
BeforeFirst(s, c) == IF Contains(s, c) THEN SubSeq(s, 1, FirstIndex(s, c) - 1) ELSE s

LowerChar(c) ==
    CASE c = "A" -> "a"
      [] c = "Maps" -> "maps"
      [] c = "Http://" -> "http://"
      [] c = "Calendly.com" -> "calendly.com"
      [] c = "Text/HTML" -> "text/html"
      [] c = "WhatsApp" -> "whatsapp"
      [] c = "Coming Soon" -> "coming soon"
      [] OTHER -> c

\* s.lower()
Lower(s) == [k \in 1..Len(s) |-> LowerChar(s[k])]

---------------------------------------------------------------------------
(* db._to_int                                                              *)

Digits == {"0", "1", "2", "3", "4", "5", "6", "7", "8", "9"}

DigitVal(c) ==
    CASE c = "0" -> 0 [] c = "1" -> 1 [] c = "2" -> 2 [] c = "3" -> 3 [] c = "4" -> 4
      [] c = "5" -> 5 [] c = "6" -> 6 [] c = "7" -> 7 [] c = "8" -> 8 [] c = "9" -> 9

RECURSIVE DecVal(_)
DecVal(s) == IF s = <<>> THEN 0 ELSE 10 * DecVal(SubSeq(s, 1, Len(s) - 1)) + DigitVal(s[Len(s)])

\* float(s) succeeds: digits with at most one point and at least one digit
\* (the alphabet has no sign, exponent, underscore, "inf" or "nan")
IsFloat(s) ==
    /\ \A k \in 1..Len(s) : s[k] \in Digits \cup {"."}
    /\ \E k \in 1..Len(s) : s[k] \in Digits
    /\ Cardinality({k \in 1..Len(s) : s[k] = "."}) <= 1

to_int(v) ==
    IF v.t = "none" THEN None
    ELSE IF v.t = "int" THEN v
    ELSE LET s == Strip(v.s) IN
         IF s = <<>> THEN None
         ELSE IF IsFloat(s) THEN I(DecVal(BeforeFirst(s, "."))) ELSE None

---------------------------------------------------------------------------
(* db._normalize_row                                                       *)

Keys == {"handle", "username", "user", "page",
         "profile_url", "profile", "profilelink", "profile_link", "url",
         "name", "bio", "description", "about",
         "website", "website_url", "site",
         "phone", "phone_number", "tel", "mobile",
         "recent_post_snippet", "snippet", "caption", "post_text",
         "email", "followers", "location", "signal_keywords_matched",
         "score", "reason"}

\* str(k).strip().lower() of a raw key
KeyLower(k) ==
    CASE k = "Handle" -> "handle"
      [] k = " Phone" -> "phone"
      [] k = "Name" -> "name"
      [] OTHER -> k

SetMax(A) == CHOOSE x \in A : \A y \in A : y <= x

\* {str(k).strip().lower(): v for k, v in (r or {}).items()}: a raw row is
\* the sequence of its (key, value) items; a later item wins its key.
\* out.get(k) of a missing key is None.
LowerKeys(r) ==
    [k \in Keys |->
        LET at == {j \in 1..Len(r) : KeyLower(r[j][1]) = k}
        IN IF at = {} THEN None ELSE r[SetMax(at)][2]]

\* one of the map sources is missing
MapSources_NoGmb == {<<"google_maps">>, <<"maps">>, <<"local">>}

\* line 497
MapSources == {<<"google_maps">>, <<"gmb">>, <<"maps">>, <<"local">>}

\* the query string is not cut off
SegmentAfter_KeepQuery(p, marker) ==
    BeforeFirst(StripSet(AfterFirst(p, marker), {"/"}), "/")

\* p.split(marker, 1)[1].split("?", 1)[0].strip("/").split("/", 1)[0]
SegmentAfter(p, marker) ==
    BeforeFirst(StripSet(BeforeFirst(AfterFirst(p, marker), "?"), {"/"}), "/")

\* lines 485-493
DeriveHandle(p) ==
    IF Contains(p, IG) THEN SegmentAfter(p, IG)
    ELSE IF Contains(p, FB) THEN SegmentAfter(p, FB)
    ELSE <<>>

NoOut == [k \in Keys |-> None]
NormRaised == [raised |-> TRUE, out |-> NoOut]

\* lines 503-512: the alias fallbacks, each only when the canonical field is falsy
Aliases(out) ==
    [out EXCEPT
       !["bio"] = IF Truthy(@) THEN @ ELSE Or(out["description"], Or(out["about"], E)),
       !["website"] = IF Truthy(@) THEN @ ELSE Or(out["website_url"], Or(out["site"], E)),
       !["phone"] = IF Truthy(@) THEN @
                    ELSE Or(out["phone_number"], Or(out["tel"], Or(out["mobile"], E))),
       !["recent_post_snippet"] = IF Truthy(@) THEN @
                    ELSE Or(out["snippet"], Or(out["caption"], Or(out["post_text"], E)))]

\* _normalize_row(r, source=source), source a str: the returned dict, or
\* raised = TRUE when a str method is called on a non-str value
\* (AttributeError: 'int' object has no attribute 'strip').
normalize_row(r, source) ==
    LET out == LowerKeys(r)
        h0 == Or(out["handle"], Or(out["username"], Or(out["user"], Or(out["page"], E))))
        p0 == Or(out["profile_url"], Or(out["profile"],
                 Or(out["profilelink"], Or(out["profile_link"], E))))
        u0 == Or(out["url"], E)
    IN  IF h0.t # "str" THEN NormRaised
        ELSE IF p0.t # "str" THEN NormRaised
        ELSE IF Strip(p0.s) = <<>> /\ u0.t # "str" THEN NormRaised
        ELSE
        LET handle1 == Strip(LStripSet(Strip(h0.s), {"@"}))
            p1 == Strip(p0.s)
            u == Strip(u0.s)
            profile_url == IF p1 = <<>> /\ (Contains(u, IG) \/ Contains(u, FB)) THEN u ELSE p1
            handle2 == IF profile_url # <<>> /\ handle1 = <<>>
                       THEN DeriveHandle(profile_url) ELSE handle1
            isMap == handle2 = <<>> /\ Lower(Strip(source)) \in MapSources
            n0 == Or(S(profile_url), Or(out["name"], E))
        IN  IF isMap /\ n0.t # "str" THEN NormRaised
            ELSE
            LET handle3 == IF isMap THEN Strip(n0.s) ELSE handle2
            IN  [raised |-> FALSE,
                 out |-> Aliases([out EXCEPT !["handle"] = S(handle3),
                                             !["profile_url"] = S(profile_url)])]

\* upsert_leads_from_rows line 141: (source or "manual").strip().lower()
SrcOf(source) == Lower(Strip(Or(source, S(<<"manual">>)).s))

\* line 143: (r2.get("handle") or "").strip().lstrip("@")
HandleOf(r2) == LStripSet(Strip(Or(r2["handle"], E).s), {"@"})

---------------------------------------------------------------------------
(* scoring.score_row                                                       *)
(* Text is a sequence of atoms: a word the tables search for is one atom   *)
(* (or the sequence of its atoms where one searched literal contains       *)
(* another, as "booking" contains "book"); substring search is search for  *)
(* a contiguous run of atoms.                                              *)

RECURSIVE NatStr(_)
NatStr(n) ==
    IF n < 10 THEN <<CHOOSE c \in Digits : DigitVal(c) = n>>
    ELSE NatStr(n \div 10) \o <<CHOOSE c \in Digits : DigitVal(c) = n % 10>>

\* str(v or "")
StrOf(v) == IF ~Truthy(v) THEN <<>> ELSE IF v.t = "int" THEN NatStr(v.i) ELSE v.s

\* the atoms of the two markers, as the scoring tables see them
RECURSIVE Expand(_)
Expand(s) ==
    IF s = <<>> THEN <<>>
    ELSE (CASE Head(s) = IG -> <<"instagram.com", "/">>
            [] Head(s) = FB -> <<"face", "book", ".com", "/">>
            [] OTHER -> <<Head(s)>>) \o Expand(Tail(s))

\* p in s
HasSub(s, p) == \E k \in 1..(Len(s) - Len(p) + 1) : SubSeq(s, k, k + Len(p) - 1) = p

\* characters outside [a-z0-9@#.\-+]
Seps == {" ", "/", "?", ":", "|", ",", "tel:"}

\* set(_tokenize(text_l)): the maximal runs of token characters
RunEnd(s, a) ==
    CHOOSE b \in a..Len(s) :
        /\ \A k \in a..b : s[k] \notin Seps
        /\ (b = Len(s) \/ s[b + 1] \in Seps)

tokenize(s) ==
    {SubSeq(s, a, RunEnd(s, a)) :
        a \in {k \in 1..Len(s) : s[k] \notin Seps /\ (k = 1 \/ s[k - 1] \in Seps)}}

RECURSIVE Join(_, _)
Join(parts, sep) ==
    IF parts = <<>> THEN <<>>
    ELSE IF Len(parts) = 1 THEN parts[1]
    ELSE parts[1] \o sep \o Join(Tail(parts), sep)

Take(s, n) == SubSeq(s, 1, IF Len(s) < n THEN Len(s) ELSE n)

RECURSIVE Filter(_, _)
Filter(tbl, text) ==
    IF tbl = <<>> THEN <<>>
    ELSE (IF HasSub(text, Head(tbl)) THEN <<Head(tbl)>> ELSE <<>>) \o Filter(Tail(tbl), text)

Min2(a, b) == IF a < b THEN a ELSE b
Max2(a, b) == IF a > b THEN a ELSE b

booking_phrases ==
    << <<"taking", " ", "new", " ", "clients">>, <<"available", " ", "this", " ", "week">>,
       <<"dm", " ", "to", " ", "book">>, <<"dm", " ", "to", " ", "schedule">>,
       <<"book", " ", "a", " ", "job">>, <<"book", " ", "now">>, <<"free", " ", "quote">>,
       <<"get", " ", "a", " ", "quote">>, <<"estimate">>, <<"same", " ", "day">>,
       <<"next", " ", "day">>, <<"emergency">>, <<"call">>, <<"whatsapp">>,
       <<"text", " ", "me">>, <<"message", " ", "me">>, <<"appointment">>, <<"book", "ing">> >>

pain_phrases ==
    << <<"lost", " ", "leads">>, <<"missing", " ", "leads">>, <<"missed", " ", "call", "s">>,
       <<"too", " ", "many", " ", "dm", "s">>, <<"need", " ", "more", " ", "call", "s">>,
       <<"need", " ", "more", " ", "leads">>, <<"need", " ", "more", " ", "book", "ing", "s">>,
       <<"need", " ", "a", " ", "website">>, <<"my", " ", "website", " ", "is", " ", "old">>,
       <<"website", " ", "is", " ", "outdated">>, <<"link", " ", "in", " ", "bio">> >>

service_tokens ==
    << <<"electrician", 32>>, <<"electrical", 22>>, <<"plumber", 32>>, <<"plumbing", 22>>,
       <<"handyman", 32>>, <<"handy-man", 32>>, <<"carpenter", 30>>, <<"carpentry", 20>>,
       <<"gardener", 30>>, <<"gardening", 20>>, <<"painter", 18>>, <<"installer", 16>>,
       <<"hvac", 18>>, <<"roofing", 14>>, <<"contractor", 12>>, <<"landscaper", 16>>,
       <<"landscaping", 12>>, <<"cleaner", 12>>, <<"cleaning", 10>>, <<"flooring", 10>>,
       <<"tiler", 10>>, <<"locksmith", 12>>, <<"mechanic", 12>> >>

solo_seller_tokens ==
    << <<"coach", 16>>, <<"consultant", 14>>, <<"therapist", 14>>, <<"trainer", 12>>,
       <<"mentor", 10>>, <<"advisor", 10>>, <<"copywriter", 8>>, <<"designer", 4>> >>

owner_tokens ==
    { <<"owner">>, <<"owner", "operator">>, <<"self", "employed">>, <<"self", "-", "employed">>,
      <<"solo">>, <<"small", "business">>, <<"small", " ", "business">> }

contact_words == { <<"whatsapp">>, <<"call">>, <<"dm">>, <<"book">>, <<"quote">> }

weakish ==
    { <<"linktr.ee">>, <<"carrd.co">>, <<"notion.site">>, <<"beacons.ai">>, <<"taplink.cc">>,
      <<"stan.store">>, <<"instagram.com">>, <<"face", "book", ".com">>, <<"tiktok.com">>,
      <<"maps.google.">>, <<"g.page">>, <<"goo.gl", "/", "maps">> }

negative ==
    << <<"developer", 22>>, <<"engineer", 18>>, <<"software", 14>>, <<"github", 22>>,
       <<"agency", 16>>, <<"webdev", 14>>, <<"freelance", 6>>, <<"forhire", 10>>,
       <<"buildinginpublic", 14>>, <<"buildinpublic", 14>>, <<"webflow", 16>>,
       <<"wordpress", 10>>, <<"wix", 10>>, <<"squarespace", 10>>, <<"framer", 12>>,
       <<"bubble", 12>>, <<"nocode", 12>>, <<"no-code", 12>>, <<"indiehackers", 14>>,
       <<"indiehacker", 14>>, <<"growthhacker", 14>>, <<"prompt", 10>> >>

committee_phrases ==
    << <<"marketing", " ", "team">>, <<"head", " ", "of">>, <<"director">>, <<"vp", " ">>,
       <<"cmo">>, <<"manager">>, <<"procurement">>, <<"rfp">>, <<"enterprise">>,
       <<"stakeholders">>, <<"proposal">> >>

\* the entries of a token table present in toks, in table order
RECURSIVE Present(_, _)
Present(tbl, toks) ==
    IF tbl = <<>> THEN <<>>
    ELSE (IF <<Head(tbl)[1]>> \in toks THEN <<Head(tbl)>> ELSE <<>>) \o Present(Tail(tbl), toks)

RECURSIVE SumPts(_)
SumPts(tbl) == IF tbl = <<>> THEN 0 ELSE Head(tbl)[2] + SumPts(Tail(tbl))

\* f"svc:{k}" without its tag
Tagged_NoTag(tag, tbl) == [k \in 1..Len(tbl) |-> <<tbl[k][1]>>]
\* f"svc:{k}", f"role:{k}", f"neg:{k}": the tag, then the token
Tagged(tag, tbl) == [k \in 1..Len(tbl) |-> <<tag, tbl[k][1]>>]

FitBonus_Flat(has_local_service, website_state) ==
    IF has_local_service /\ website_state \in {"none", "weak"} THEN 18 ELSE 0
\* lines 160-162: the points of fit:local_service_weak_web
FitBonus(has_local_service, website_state) ==
    IF has_local_service /\ website_state \in {"none", "weak"}
    THEN (IF website_state = "none" THEN 22 ELSE 18) ELSE 0

ClampScore_None(total) == total
\* line 227: max(0, min(100, int(score)))
ClampScore(total) == Max2(0, Min2(100, total))

\* re.search(r"([a-zA-Z0-9._%+\-]+@[a-zA-Z0-9.\-]+\.[a-zA-Z]{2,})", text): the
\* atom "@x.yz" stands for an "@" followed by a domain with a top-level name
HasEmail(text) ==
    \E k \in 2..Len(text) : text[k] = "@x.yz" /\ text[k - 1] \notin Seps \cup {"@x.yz"}

score_row(r) ==
    LET name == StrOf(r["name"])
        bio == StrOf(r["bio"])
        loc == StrOf(r["location"])
        website == StrOf(r["website"])
        phone == StrOf(r["phone"])
        snippet == StrOf(r["recent_post_snippet"])
        extra == StrOf(r["signal_keywords_matched"])
        profile_url == StrOf(r["profile_url"])
        text == Expand(Strip(Join(<<name, bio, loc, website, phone, snippet, extra,
                                    profile_url>>, <<" ">>)))
        text_l == Lower(text)
        toks == tokenize(text_l)
        matched_booking == Filter(booking_phrases, text_l)
        matched_pain == Filter(pain_phrases, text_l)
        svc == Present(service_tokens, toks)
        role == Present(solo_seller_tokens, toks)
        owner == (\E t \in owner_tokens : HasSub(text_l, t)) \/ <<"owner">> \in toks
        wl == Lower(Expand(website))
        website_state ==
            IF Strip(website) = <<>> THEN "none"
            ELSE IF \E h \in weakish : HasSub(wl, h) THEN "weak" ELSE "strong"
        contact == \E x \in contact_words : HasSub(text_l, x)
        fit == svc # <<>> /\ website_state \in {"none", "weak"}
        wa == <<"whatsapp">> \in toks \/ HasSub(text_l, <<"wa.me">>)
        hasPhone == Strip(phone) # <<>>
        telLink == HasSub(text_l, <<"tel:">>)
        email == HasEmail(text)
        neg == Present(negative, toks)
        matched_committee == Filter(committee_phrases, text_l)
        total ==
              (IF matched_booking # <<>>
               THEN Min2(44, 14 + 6 * Min2(5, Len(matched_booking))) ELSE 0)
            + (IF matched_pain # <<>> THEN Min2(18, 8 + 3 * Min2(4, Len(matched_pain))) ELSE 0)
            + SumPts(svc) + SumPts(role)
            + (IF owner THEN 8 ELSE 0)
            + (CASE website_state = "none" -> (IF contact THEN 16 ELSE 10)
                 [] website_state = "weak" -> 16
                 [] OTHER -> 3)
            + FitBonus(svc # <<>>, website_state)
            + (IF wa THEN 18 ELSE 0) + (IF hasPhone THEN 14 ELSE 0)
            + (IF telLink THEN 8 ELSE 0) + (IF email THEN 6 ELSE 0)
            - SumPts(neg)
            - (IF matched_committee # <<>>
               THEN Min2(26, 12 + 4 * Min2(4, Len(matched_committee))) ELSE 0)
        reasons ==
               (IF matched_booking # <<>>
                THEN << <<"intent:">> \o Join(Take(matched_booking, 5), <<",", " ">>) >> ELSE <<>>)
            \o (IF matched_pain # <<>>
                THEN << <<"pain:">> \o Join(Take(matched_pain, 4), <<",", " ">>) >> ELSE <<>>)
            \o Tagged("svc:", svc) \o Tagged("role:", role)
            \o (IF owner THEN << <<"decision:", "solo">> >> ELSE <<>>)
            \o (CASE website_state = "none" ->
                       (IF contact THEN << <<"no_website_but_contact">> >>
                        ELSE << <<"no_website">> >>)
                  [] website_state = "weak" -> << <<"weak_link_in_bio">> >>
                  [] OTHER -> << <<"has_website">> >>)
            \o (IF fit THEN << <<"fit:", "local_service_weak_web">> >> ELSE <<>>)
            \o (IF wa THEN << <<"contact:", "whatsapp">> >> ELSE <<>>)
            \o (IF hasPhone THEN << <<"contact:", "phone">> >> ELSE <<>>)
            \o (IF telLink THEN << <<"contact:", "phone_link">> >> ELSE <<>>)
            \o (IF email THEN << <<"contact:", "email">> >> ELSE <<>>)
            \o Tagged("neg:", neg)
            \o (IF matched_committee # <<>> THEN << <<"neg:", "committee">> >> ELSE <<>>)
    IN  [score |-> ClampScore(total), reasons |-> reasons, state |-> website_state,
         fit |-> FitBonus(svc # <<>>, website_state)]

---------------------------------------------------------------------------
(* db.upsert_leads_from_rows                                               *)

Procs == {"t1", "t2"}

\* the arguments of the str(...).strip() calls of lines 184-194
TextCols == {"name", "bio", "location", "website", "phone", "email",
             "recent_post_snippet", "signal_keywords_matched", "reason"}

\* the whole reason list is joined
Scored_NoLimit(r2, compute_score_if_missing, score_fn) ==
    IF compute_score_if_missing /\ to_int(r2["score"]).t = "none" /\ score_fn = "score_row"
    THEN LET sr == score_row(r2)
         IN  [r2 EXCEPT !["score"] = I(sr.score),
                        !["reason"] = S(Join(sr.reasons, <<" ", "|", " ">>))]
    ELSE r2

\* lines 148-154: score_fn is None or scoring.score_row (which str()s every
\* field it reads, so the except branch is never taken)
Scored(r2, compute_score_if_missing, score_fn) ==
    IF compute_score_if_missing /\ to_int(r2["score"]).t = "none" /\ score_fn = "score_row"
    THEN LET sr == score_row(r2)
         IN  [r2 EXCEPT !["score"] = I(sr.score),
                        !["reason"] = S(Join(Take(sr.reasons, 18), <<" ", "|", " ">>))]
    ELSE r2

\* lines 180-197: the bound parameters; raised when .strip() is called on an int
ParamsRaise(r2) == \E c \in TextCols : Or(r2[c], E).t # "str"

TextParam(r2, c) == S(Strip(Or(r2[c], E).s))

\* the incoming value always wins
CoalesceNullif_Excluded(excluded, old) == excluded

\* COALESCE(NULLIF(excluded.c, ''), leads.c)
CoalesceNullif(excluded, old) ==
    IF excluded.t = "none" \/ excluded = E THEN old ELSE excluded

\* the row of the VALUES clause, with the column defaults of the schema
NewLead(id, src, handle, profile_url, r2, now) ==
    [id |-> id, source |-> S(src), handle |-> S(handle),
     profile_url |-> IF profile_url = <<>> THEN None ELSE S(profile_url),
     name |-> TextParam(r2, "name"), bio |-> TextParam(r2, "bio"),
     followers |-> to_int(r2["followers"]), location |-> TextParam(r2, "location"),
     website |-> TextParam(r2, "website"), phone |-> TextParam(r2, "phone"),
     email |-> TextParam(r2, "email"),
     recent_post_snippet |-> TextParam(r2, "recent_post_snippet"),
     signal_keywords_matched |-> TextParam(r2, "signal_keywords_matched"),
     score |-> to_int(r2["score"]), reason |-> TextParam(r2, "reason"),
     website_score |-> None, website_verdict |-> None, website_findings |-> None,
     website_checked_at |-> None, website_final_url |-> None, website_http_status |-> None,
     status |-> S(<<"new">>), notes |-> E, tags |-> S(<<"[", "]">>),
     last_seen_at |-> I(now), created_at |-> I(now)]

\* INSERT OR REPLACE: the stored row is replaced by the VALUES row
Merged_Replace(old, x) == [x EXCEPT !.id = old.id]

\* created_at is in the SET list
Merged_TouchCreated(old, x) ==
    [old EXCEPT
       !.profile_url = CoalesceNullif(x.profile_url, old.profile_url),
       !.name = x.name, !.bio = x.bio, !.followers = x.followers, !.location = x.location,
       !.website = CoalesceNullif(x.website, old.website),
       !.phone = CoalesceNullif(x.phone, old.phone),
       !.email = CoalesceNullif(x.email, old.email),
       !.recent_post_snippet = x.recent_post_snippet,
       !.signal_keywords_matched = x.signal_keywords_matched,
       !.score = x.score, !.reason = x.reason,
       !.last_seen_at = x.last_seen_at, !.created_at = x.created_at]

\* name and followers are kept when the incoming value is blank or unset
Merged_KeepName(old, x) ==
    [old EXCEPT
       !.profile_url = CoalesceNullif(x.profile_url, old.profile_url),
       !.name = CoalesceNullif(x.name, old.name), !.bio = x.bio,
       !.followers = CoalesceNullif(x.followers, old.followers), !.location = x.location,
       !.website = CoalesceNullif(x.website, old.website),
       !.phone = CoalesceNullif(x.phone, old.phone),
       !.email = CoalesceNullif(x.email, old.email),
       !.recent_post_snippet = x.recent_post_snippet,
       !.signal_keywords_matched = x.signal_keywords_matched,
       !.score = x.score, !.reason = x.reason,
       !.last_seen_at = x.last_seen_at]

\* ON CONFLICT(source, handle) DO UPDATE SET ...
Merged(old, x) ==
    [old EXCEPT
       !.profile_url = CoalesceNullif(x.profile_url, old.profile_url),
       !.name = x.name, !.bio = x.bio, !.followers = x.followers, !.location = x.location,
       !.website = CoalesceNullif(x.website, old.website),
       !.phone = CoalesceNullif(x.phone, old.phone),
       !.email = CoalesceNullif(x.email, old.email),
       !.recent_post_snippet = x.recent_post_snippet,
       !.signal_keywords_matched = x.signal_keywords_matched,
       !.score = x.score, !.reason = x.reason,
       !.last_seen_at = x.last_seen_at]

\* the rows that conflict with (source, handle) under UNIQUE(source, handle)
Conflicts(tbl, x) == {k \in 1..Len(tbl) : tbl[k].source = x.source /\ tbl[k].handle = x.handle}

\* SELECT * FROM leads WHERE id=?
Pos(tbl, id) == {k \in 1..Len(tbl) : tbl[k].id = id}
RowOf(tbl, id) == tbl[SetMax(Pos(tbl, id))]

\* a plain INSERT into a table without the UNIQUE constraint
Upsert_AlwaysInsert(tbl, x) == Append(tbl, x)

\* INSERT ... ON CONFLICT DO UPDATE; x.id is the id AUTOINCREMENT would give
\* the new row (SQLite advances sqlite_sequence on the update path as well)
Upsert(tbl, x) ==
    IF Conflicts(tbl, x) = {} THEN Append(tbl, x)
    ELSE [tbl EXCEPT ![SetMax(Conflicts(tbl, x))] = Merged(@, x)]

NoLead == [id |-> 0, source |-> None, handle |-> None, profile_url |-> None, name |-> None,
           bio |-> None, followers |-> None, location |-> None, website |-> None,
           phone |-> None, email |-> None, recent_post_snippet |-> None,
           signal_keywords_matched |-> None, score |-> None, reason |-> None,
           website_score |-> None, website_verdict |-> None, website_findings |-> None,
           website_checked_at |-> None, website_final_url |-> None,
           website_http_status |-> None, status |-> None, notes |-> None, tags |-> None,
           last_seen_at |-> None, created_at |-> None]

NoJob == [rows |-> <<>>, source |-> None, csm |-> FALSE, score_fn |-> "None",
          now |-> 0, n |-> 0, i |-> 0, ret |-> -1]

NoLast == [op |-> "init", proc |-> "", id |-> 0, existed |-> FALSE, before |-> NoLead,
           r2 |-> NoOut, res |-> "", arg |-> <<>>]

---------------------------------------------------------------------------
(* Bounds and inputs                                                       *)

MaxOps == 3
MaxBatchLen == 2
MaxClock == 2
MaxLeadId == 2

RowA1 == << <<"Handle", S(<<"@", "a">>)>>, <<"website", S(<<"w">>)>>,
            <<"name", S(<<" ", "n">>)>>, <<"followers", S(<<"1", "2", ".", "7">>)>>,
            <<"score", S(<<"7">>)>>, <<"email", S(<<"e", "@x.yz">>)>>, <<"phone", S(<<"4">>)>>,
            <<"reason", S(<<"r">>)>>, <<"profile_url", S(<<"p">>)>> >>
RowA2 == << <<"handle", S(<<"a">>)>>, <<"website", S(<<" ">>)>>, <<"name", E>>,
            <<"followers", E>>, <<"email", None>>, <<"tel", S(<<"5">>)>> >>
RowA3 == << <<"username", S(<<"a">>)>>, <<"site", S(<<"v">>)>>, <<" Phone", S(<<"5">>)>>,
            <<"description", S(<<"plumber">>)>>, <<"followers", I(0)>> >>
RowN == << <<"Name", S(<<"n">>)>>, <<"website", S(<<"w">>)>> >>
RowBadName == << <<"handle", S(<<"a">>)>>, <<"name", I(5)>> >>

\* the rows the import requests carry
Rows == {RowA1, RowA2, RowA3, RowN, RowBadName}

Sources == {S(<<"x">>), S(<<" ", "Maps">>)}

\* the (compute_score_if_missing, score_fn) pairs of the callers in main.py
ScoreModes == {<<FALSE, "None">>, <<TRUE, "score_row">>}

Batches == UNION {[1..k -> Rows] : k \in 0..MaxBatchLen}

Patches ==
    { << <<"status", S(<<"won">>)>> >>,
      << <<"notes", S(<<"n1">>)>>, <<"name", S(<<"zz">>)>>,
         <<"tags", L(<< <<"vip">>, <<"hot">> >>)>> >>,
      << <<"name", S(<<"zz">>)>>, <<"created_at", I(0)>>, <<"Status", S(<<"won">>)>> >>,
      << <<"tags", None>>, <<"website", S(<<"zz">>)>> >>,
      << <<"status", None>> >> }

\* two results of audit.audit_website (lines 68-75 and 235-242) at time t
AuditResults(t) ==
    { [website_score |-> I(0), website_verdict |-> S(<<"no_website">>),
       website_findings |-> S(<<"No website listed.">>), website_http_status |-> None,
       website_final_url |-> E, website_checked_at |-> I(t)],
      [website_score |-> I(71), website_verdict |-> S(<<"good_site">>),
       website_findings |-> S(<<"Mobile viewport tag found.">>),
       website_http_status |-> I(200),
       website_final_url |-> S(<<"https://", "w">>), website_checked_at |-> I(t)] }

\* no audit is under way; no scoring call is under way
NoAud == [stage |-> "off"]
NoSc == [stage |-> "off"]
\* no request has reached the run endpoints; no graph_get call is under way
NoSrv == [stage |-> "off"]
NoGr == [stage |-> "off"]

---------------------------------------------------------------------------
(* The ingestion threads                                                   *)

Init ==
    /\ leads = <<>>
    /\ seq = 0
    /\ clock = 1
    /\ pc = [p \in Procs |-> "idle"]
    /\ job = [p \in Procs |-> NoJob]
    /\ last = NoLast
    /\ ops = 0
    /\ srv = NoSrv
    /\ gr = NoGr
    /\ nin = [row |-> <<>>, source |-> None]
    /\ nout = [stage |-> "off", src |-> <<>>, raised |-> FALSE, out |-> NoOut,
               handle |-> <<>>, persist |-> FALSE]
    /\ aud = NoAud
    /\ sc = NoSc

\* time passes
Tick ==
    /\ clock < MaxClock
    /\ clock' = clock + 1
    /\ UNCHANGED <<leads, seq, pc, job, last, ops, nin, nout, aud, sc, srv, gr>>

\* lines 135-138: a call of upsert_leads_from_rows starts
StartUpsert(p, rows, source, mode) ==
    /\ pc[p] # "loop"
    /\ ops + Max2(1, Len(rows)) <= MaxOps
    /\ ops' = ops + Max2(1, Len(rows))
    /\ job' = [job EXCEPT ![p] = [rows |-> rows, source |-> source, csm |-> mode[1],
                                  score_fn |-> mode[2], now |-> clock, n |-> 0, i |-> 1,
                                  ret |-> -1]]
    /\ pc' = [pc EXCEPT ![p] = "loop"]
    /\ last' = [NoLast EXCEPT !.op = "start", !.proc = p]
    /\ UNCHANGED <<leads, seq, clock, nin, nout, aud, sc, srv, gr>>

\* lines 140-199: one iteration of the for loop
UpsertRow(p) ==
    /\ pc[p] = "loop"
    /\ job[p].i <= Len(job[p].rows)
    /\ \E nr \in {normalize_row(job[p].rows[job[p].i], SrcOf(job[p].source))} :
       \E r2 \in {Scored(nr.out, job[p].csm, job[p].score_fn)} :
       LET j == job[p]
           src == SrcOf(j.source)
           handle == HandleOf(nr.out)
           profile_url == Strip(Or(nr.out["profile_url"], E).s)
           x == NewLead(seq + 1, src, handle, profile_url, r2, j.now)
           hit == Conflicts(leads, x)
       IN  IF nr.raised \/ (handle # <<>> /\ ParamsRaise(r2))
           THEN /\ pc' = [pc EXCEPT ![p] = "raised"]
                /\ job' = [job EXCEPT ![p] = NoJob]
                /\ last' = [NoLast EXCEPT !.op = "raise", !.proc = p]
                /\ UNCHANGED <<leads, seq>>
           ELSE IF handle = <<>>
           THEN /\ job' = [job EXCEPT ![p].i = @ + 1]
                /\ last' = [NoLast EXCEPT !.op = "skip", !.proc = p, !.r2 = nr.out]
                /\ UNCHANGED <<leads, seq, pc>>
           ELSE /\ leads' = Upsert(leads, x)
                /\ seq' = seq + 1
                /\ job' = [job EXCEPT ![p].i = @ + 1, ![p].n = @ + 1]
                /\ last' = [op |-> "merge", proc |-> p,
                            id |-> IF hit = {} THEN x.id ELSE leads[SetMax(hit)].id,
                            existed |-> hit # {},
                            before |-> IF hit = {} THEN NoLead ELSE leads[SetMax(hit)],
                            r2 |-> r2, res |-> "", arg |-> <<>>]
                /\ UNCHANGED pc
    /\ UNCHANGED <<clock, ops, nin, nout, aud, sc, srv, gr>>

\* lines 201-202: conn.commit(); return n
ReturnUpsert(p) ==
    /\ pc[p] = "loop"
    /\ job[p].i > Len(job[p].rows)
    /\ pc' = [pc EXCEPT ![p] = "done"]
    /\ job' = [job EXCEPT ![p] = [NoJob EXCEPT !.ret = job[p].n]]
    /\ last' = [NoLast EXCEPT !.op = "return", !.proc = p]
    /\ UNCHANGED <<leads, seq, clock, ops, nin, nout, aud, sc, srv, gr>>

---------------------------------------------------------------------------
(* db.update_lead, db.get_lead, db.update_website_audit                    *)

Quote(x) == <<"\"">> \o x \o <<"\"">>

\* json.dumps(v or [], ensure_ascii=True) of a list of str, or of a str
JsonDumps(v) ==
    IF ~Truthy(v) THEN <<"[", "]">>
    ELSE IF v.t = "list"
    THEN <<"[">> \o Join([k \in 1..Len(v.s) |-> Quote(v.s[k])], <<",", " ">>) \o <<"]">>
    ELSE Quote(v.s)

\* one more column may be patched
allowed_WithName == {"status", "notes", "tags", "name"}

\* line 262
allowed == {"status", "notes", "tags"}

\* lines 265-273: the SET list, as the (column, parameter) pairs in patch order
RECURSIVE Fields(_)
Fields(patch) ==
    IF patch = <<>> THEN <<>>
    ELSE LET k == Head(patch)[1]
             v == Head(patch)[2]
         IN  (IF k \notin allowed THEN <<>>
              ELSE IF k = "tags" THEN << <<k, S(JsonDumps(v))>> >>
              ELSE << <<k, v>> >>) \o Fields(Tail(patch))

\* UPDATE leads SET c1=?, c2=?, ... applied to one row
RECURSIVE SetFields(_, _)
SetFields(row, fields) ==
    IF fields = <<>> THEN row
    ELSE SetFields([row EXCEPT ![Head(fields)[1]] = Head(fields)[2]], Tail(fields))

\* status and notes are NOT NULL: binding None raises sqlite3.IntegrityError
ViolatesNotNull(fields) == \E k \in 1..Len(fields) : fields[k][2].t = "none"

\* lines 262-280: UPDATE leads SET <fields> WHERE id=?; nothing is written
\* when no key of the patch is allowed, when no lead has the id, or when the
\* statement fails on a NOT NULL column
LeadUpdated(tbl, lead_id, patch) ==
    LET fields == Fields(patch)
    IN  IF fields = <<>> \/ Pos(tbl, lead_id) = {} \/ ViolatesNotNull(fields) THEN tbl
        ELSE [tbl EXCEPT ![SetMax(Pos(tbl, lead_id))] = SetFields(@, fields)]

update_lead(lead_id, patch) ==
    /\ ops < MaxOps
    /\ ops' = ops + 1
    /\ LET fields == Fields(patch)
           exists == Pos(leads, lead_id) # {}
           raises == fields # <<>> /\ exists /\ ViolatesNotNull(fields)
       IN  /\ leads' = LeadUpdated(leads, lead_id, patch)
           /\ last' = [op |-> "update_lead", proc |-> "", id |-> lead_id, existed |-> exists,
                       before |-> IF exists THEN RowOf(leads, lead_id) ELSE NoLead,
                       r2 |-> NoOut,
                       res |-> IF raises THEN "raised" ELSE IF exists THEN "lead" ELSE "None",
                       arg |-> patch]
    /\ UNCHANGED <<seq, clock, pc, job, nin, nout, aud, sc, srv, gr>>

\* website_checked_at is not in the SET list
AuditWritten_NoSentinel(tbl, lead_id, result) ==
    IF Pos(tbl, lead_id) = {} THEN tbl
    ELSE [tbl EXCEPT ![SetMax(Pos(tbl, lead_id))] =
            [@ EXCEPT
               !.website_score = to_int(result.website_score),
               !.website_verdict = S(Strip(Or(result.website_verdict, E).s)),
               !.website_findings = S(Strip(Or(result.website_findings, E).s)),
               !.website_final_url = S(Strip(Or(result.website_final_url, E).s)),
               !.website_http_status = to_int(result.website_http_status)]]

\* lines 342-361: UPDATE leads SET website_score=?, ... WHERE id=?
AuditWritten(tbl, lead_id, result) ==
    IF Pos(tbl, lead_id) = {} THEN tbl
    ELSE [tbl EXCEPT ![SetMax(Pos(tbl, lead_id))] =
            [@ EXCEPT
               !.website_score = to_int(result.website_score),
               !.website_verdict = S(Strip(Or(result.website_verdict, E).s)),
               !.website_findings = S(Strip(Or(result.website_findings, E).s)),
               !.website_checked_at = to_int(result.website_checked_at),
               !.website_final_url = S(Strip(Or(result.website_final_url, E).s)),
               !.website_http_status = to_int(result.website_http_status)]]

update_website_audit(lead_id, result) ==
    /\ ops < MaxOps
    /\ ops' = ops + 1
    /\ LET exists == Pos(leads, lead_id) # {}
       IN  /\ leads' = AuditWritten(leads, lead_id, result)
           /\ last' = [op |-> "audit", proc |-> "", id |-> lead_id, existed |-> exists,
                       before |-> IF exists THEN RowOf(leads, lead_id) ELSE NoLead,
                       r2 |-> NoOut, res |-> "", arg |-> <<>>]
    /\ UNCHANGED <<seq, clock, pc, job, nin, nout, aud, sc, srv, gr>>

\* the thread that serves the import requests
Importer == {"t1"}

Next ==
    \/ Tick
    \/ \E p \in Importer, rows \in Batches, source \in Sources, mode \in ScoreModes :
          StartUpsert(p, rows, source, mode)
    \/ \E p \in Importer : UpsertRow(p)
    \/ \E p \in Importer : ReturnUpsert(p)
    \/ \E lead_id \in 1..MaxLeadId, patch \in Patches : update_lead(lead_id, patch)
    \/ \E lead_id \in 1..MaxLeadId, result \in AuditResults(clock) :
          update_website_audit(lead_id, result)

Spec == Init /\ [][Next]_vars

---------------------------------------------------------------------------
(* The normalizer on its own: one raw row and one source tag go through    *)
(* lines 141-145 of upsert_leads_from_rows                                 *)

Absent == [t |-> "absent", s |-> <<>>, i |-> 0]

Item(k, v) == IF v = Absent THEN <<>> ELSE << <<k, v>> >>

MkRow(handle, username, profile, url, name) ==
    Item("Handle", handle) \o Item("username", username) \o Item("profile_link", profile)
    \o Item("url", url) \o Item("name", name)

NHandles == {Absent, None, E, I(0), I(5), S(<<" ", "@", " ">>), S(<<"@", "a">>)}
NUsers == {Absent, S(<<"b">>)}
NProfiles == {Absent, I(5), S(<<"w", "/", "a">>), S(<<"h", IG, "b", "/", "c", "?", "q">>),
              S(<<"h", FB, IG, "@", "b">>)}
NUrls == {Absent, I(5), S(<<"w", "/", "a">>), S(<<FB, "/", "a", "/", "?", "q", "/">>),
          S(<<" ", IG, "?", "b", " ">>), S(<<"h", IG>>)}
NNames == {Absent, I(5), S(<<" ">>), S(<<" ", "n">>)}
NSources == {None, S(<<" ">>), S(<<"x">>), S(<<" ", "Maps">>), S(<<"gmb">>)}

InitNorm ==
    /\ leads = <<>>
    /\ seq = 0
    /\ clock = 1
    /\ pc = [p \in Procs |-> "idle"]
    /\ job = [p \in Procs |-> NoJob]
    /\ last = NoLast
    /\ ops = 0
    /\ srv = NoSrv
    /\ gr = NoGr
    /\ \E h \in NHandles, un \in NUsers, pr \in NProfiles, u \in NUrls, nm \in NNames,
          source \in NSources :
          nin = [row |-> MkRow(h, un, pr, u, nm), source |-> source]
    /\ nout = [stage |-> "in", src |-> <<>>, raised |-> FALSE, out |-> NoOut,
               handle |-> <<>>, persist |-> FALSE]
    /\ aud = NoAud
    /\ sc = NoSc

\* lines 141-142
NormStep ==
    /\ nout.stage = "in"
    /\ \E nr \in {normalize_row(nin.row, SrcOf(nin.source))} :
          nout' = [nout EXCEPT !.stage = IF nr.raised THEN "raised" ELSE "norm",
                               !.src = SrcOf(nin.source),
                               !.raised = nr.raised,
                               !.out = nr.out]
    /\ UNCHANGED <<leads, seq, clock, pc, job, last, ops, nin, aud, sc, srv, gr>>

\* lines 143-145
IdentStep ==
    /\ nout.stage = "norm"
    /\ nout' = [nout EXCEPT !.stage = "ident",
                            !.handle = HandleOf(nout.out),
                            !.persist = HandleOf(nout.out) # <<>>]
    /\ UNCHANGED <<leads, seq, clock, pc, job, last, ops, nin, aud, sc, srv, gr>>

NextNorm == NormStep \/ IdentStep

SpecNorm == InitNorm /\ [][NextNorm]_vars

---------------------------------------------------------------------------
(* Properties of the merge resolver (specification Spec)                   *)

Ids == {leads[k].id : k \in 1..Len(leads)}
IsMerge == last.op = "merge"
IsReMerge == last.op = "merge" /\ last.existed
Cur == RowOf(leads, last.id)

C1_Unique ==
    \A a, b \in 1..Len(leads) :
        (leads[a].source = leads[b].source /\ leads[a].handle = leads[b].handle) => a = b

C1_Step ==
    /\ Len(leads') >= Len(leads)
    /\ \A k \in 1..Len(leads) :
          /\ leads'[k].id = leads[k].id
          /\ leads'[k].source = leads[k].source
          /\ leads'[k].handle = leads[k].handle
    /\ (seq' # seq /\ \E k \in 1..Len(leads) :
           /\ leads[k].source = RowOf(leads', last'.id).source
           /\ leads[k].handle = RowOf(leads', last'.id).handle)
          => Len(leads') = Len(leads)

\* C1: the leads table holds at most one lead per (source, handle); a step
\* never removes a lead or changes the identity of one, and the ingestion of
\* a row whose identity is already stored leaves the number of leads as it was.
C1_OneLeadPerIdentity ==
    /\ []C1_Unique
    /\ [][C1_Step]_vars

\* a second ingestion of a stored identity has happened and two leads are stored
C1_Witness == IsReMerge /\ Len(leads) = 2

\* the value ingestion binds for a text column: (r2.get(c) or "").strip()
Incoming(c) == Strip(StrOf(last.r2[c]))

KeepCols == {"profile_url", "website", "phone", "email"}

C2_Merge ==
    IsReMerge =>
        \A c \in KeepCols :
            /\ Incoming(c) = <<>> => Cur[c] = last.before[c]
            /\ Incoming(c) # <<>> => Cur[c] = S(Incoming(c))

C2_NeverBlank ==
    \A k \in 1..Len(leads) : \A c \in KeepCols :
        Truthy(leads[k][c]) => Truthy(leads'[k][c])

\* C2: on a re-ingestion, each of profile_url, website, phone and email keeps
\* its stored value when the incoming value is empty and takes the incoming
\* value when that is non-empty; no step makes a non-empty one of them blank.
C2_KeepUnlessNonEmpty == []C2_Merge /\ [][C2_NeverBlank]_vars

\* one re-ingestion has kept the stored website, its incoming website being
\* blank, and has replaced the stored phone by a different incoming phone
C2_Witness ==
    /\ IsReMerge
    /\ Incoming("website") = <<>> /\ Truthy(last.before.website)
    /\ Truthy(last.before.phone) /\ Cur.phone # last.before.phone

OperatorCols == {"status", "notes", "tags"}

\* C3: every step of an ingestion leaves status, notes and tags of every
\* stored lead as they were, so an operator edit survives re-ingestion.
C3_IngestionKeepsOperatorFields ==
    [][<<pc, job>>' # <<pc, job>> =>
          \A k \in 1..Len(leads) : \A c \in OperatorCols : leads'[k][c] = leads[k][c]]_vars

\* a lead edited by the operator has been re-ingested and still has the edit
C3_Witness ==
    /\ IsReMerge
    /\ Cur.status = S(<<"won">>) \/ Cur.notes = S(<<"n1">>)

OverwriteText == {"name", "bio", "location", "recent_post_snippet",
                  "signal_keywords_matched", "reason"}
OverwriteInt == {"followers", "score"}

C4_Merge ==
    IsMerge =>
        /\ \A c \in OverwriteText : Cur[c] = S(Incoming(c))
        /\ \A c \in OverwriteInt : Cur[c] = to_int(last.r2[c])

C4_Frame ==
    <<pc, job>>' = <<pc, job>> =>
        \A k \in 1..Len(leads) : \A c \in OverwriteText \cup OverwriteInt :
            leads'[k][c] = leads[k][c]

\* C4: after the merge of a row, name, bio, followers, location,
\* recent_post_snippet, signal_keywords_matched, score and reason of its lead
\* are the values of that row (text trimmed, numbers coerced), blank or unset
\* included; operator edits and audit writes leave them as the last row set them.
C4_AlwaysOverwritten == []C4_Merge /\ [][C4_Frame]_vars

\* a re-ingestion with a blank name and no followers has blanked both
C4_Witness ==
    /\ IsReMerge
    /\ Truthy(last.before.name) /\ Cur.name = E
    /\ last.before.followers # None /\ Cur.followers = None

\* C5: upsert_leads_from_rows never raises, whatever the rows hold.
C5_BatchNeverRaises == \A p \in Procs : pc[p] # "raised"

C9_Created ==
    \A k \in 1..Len(leads) : leads'[k].created_at = leads[k].created_at

C9_Merge ==
    IsMerge =>
        /\ Cur.last_seen_at = I(job[last.proc].now)
        /\ ~last.existed => Cur.created_at = I(job[last.proc].now)
        /\ Cur.created_at.i <= Cur.last_seen_at.i
        /\ Cur.last_seen_at.i <= clock

\* C9: created_at of a stored lead is changed by no step (ingestion, operator
\* edit or audit write); each merge sets last_seen_at to the time of the call
\* of upsert_leads_from_rows it belongs to, and a new lead gets that time as
\* created_at.
C9_CreatedOnceSeenEachMerge == []C9_Merge /\ [][C9_Created]_vars

\* a lead created at one time has been re-ingested at a later time
C9_Witness == IsReMerge /\ Cur.created_at.i < Cur.last_seen_at.i

Cols == DOMAIN NoLead

C10_Step ==
    (last'.op = "update_lead" /\ ops' = ops + 1) =>
        /\ Len(leads') = Len(leads)
        /\ \A k \in 1..Len(leads) :
              /\ leads[k].id # last'.id => leads'[k] = leads[k]
              /\ \A c \in Cols \ OperatorCols : leads'[k][c] = leads[k][c]
              /\ \A c \in OperatorCols :
                    (\A m \in 1..Len(last'.arg) : last'.arg[m][1] # c)
                        => leads'[k][c] = leads[k][c]
        /\ last'.id \notin Ids => (last'.res = "None" /\ leads' = leads)

\* C10: update_lead changes no column other than status, notes and tags, and
\* of these only the ones the patch names; it changes no other lead, and for
\* an unknown id it returns None and changes nothing.
C10_UpdateLeadRestricted == [][C10_Step]_vars

\* an edit whose patch also names "name" has changed notes and tags of a lead
C10_Witness ==
    /\ last.op = "update_lead" /\ last.existed
    /\ \E m \in 1..Len(last.arg) : last.arg[m][1] = "name"
    /\ Cur.notes # last.before.notes
    /\ Cur.name = last.before.name

---------------------------------------------------------------------------
(* Properties of the normalizer (specification SpecNorm)                   *)

\* C6: _normalize_row raises for no row.
C6_NormalizeNeverRaises == nout.stage # "raised"

Normalized == nout.stage \in {"norm", "ident"}
In == LowerKeys(nin.row)
NoAliasHandle == \A k \in {"handle", "username", "user", "page"} : ~Truthy(In[k])
OutHandle == nout.out["handle"].s
OutProfile == nout.out["profile_url"].s
IsMapSource == nout.src \in {<<"google_maps">>, <<"gmb">>, <<"maps">>, <<"local">>}

SetMin(A) == CHOOSE x \in A : \A y \in A : x <= y

\* h is the first path segment of p after the first occurrence of marker m:
\* the path ends before the first "?", and slashes around it do not count
IsSegmentAfter(h, p, m) ==
    \E k \in 1..Len(p) :
        /\ p[k] = m
        /\ \A j \in 1..(k - 1) : p[j] # m
        /\ LET q == {j \in (k + 1)..Len(p) : p[j] = "?"}
               end == IF q = {} THEN Len(p) ELSE SetMin(q) - 1
               body == {j \in (k + 1)..end : p[j] # "/"}
           IN  IF body = {} THEN h = <<>>
               ELSE LET a == SetMin(body)
                        b == SetMax({j \in a..end : \A x \in a..j : p[x] # "/"})
                    IN  h = SubSeq(p, a, b)

\* C7: a row with no handle under any alias and a profile URL that contains
\* a social-domain marker gets as handle the first path segment after a
\* marker of the URL, query string and surrounding slashes removed; only
\* when that segment is empty and the source is a map source is the handle
\* instead the fallback of C8.
C7_HandleFromProfileUrl ==
    (Normalized /\ NoAliasHandle /\ (Contains(OutProfile, IG) \/ Contains(OutProfile, FB))) =>
        \E m \in {IG, FB} :
            /\ Contains(OutProfile, m)
            /\ \/ IsSegmentAfter(OutHandle, OutProfile, m)
               \/ IsSegmentAfter(<<>>, OutProfile, m) /\ IsMapSource /\ OutHandle = OutProfile

\* a URL with a query string and a second path segment has given the handle
C7_Witness ==
    /\ nout.stage = "ident" /\ NoAliasHandle
    /\ Contains(OutProfile, "?") /\ Contains(OutProfile, "/")
    /\ OutHandle # <<>> /\ Len(OutHandle) < Len(OutProfile) /\ nout.persist

\* no alias gives a handle and the profile URL gives none either
StillEmpty ==
    /\ NoAliasHandle
    /\ \A m \in {IG, FB} : Contains(OutProfile, m) => IsSegmentAfter(<<>>, OutProfile, m)

\* C8: when aliases and URL derivation leave the handle empty, a row of a map
\* source gets the profile URL as handle, or without one the trimmed name,
\* and a row of any other source keeps an empty handle and is not persisted.
C8_MapSourceFallback ==
    (nout.stage = "ident" /\ StillEmpty) =>
        IF IsMapSource
        THEN /\ OutHandle = (IF OutProfile # <<>> THEN OutProfile ELSE Strip(StrOf(In["name"])))
             /\ nout.persist = (OutHandle # <<>>)
        ELSE OutHandle = <<>> /\ ~nout.persist

\* a map-source row without profile URL has got its name as handle
C8_Witness ==
    /\ nout.stage = "ident" /\ StillEmpty /\ IsMapSource
    /\ OutProfile = <<>> /\ OutHandle = <<"n">> /\ nout.persist


---------------------------------------------------------------------------
(* audit.audit_website                                                     *)
(*                                                                         *)
(* A URL is a string whose characters are: white space, a scheme with its  *)
(* "://", a user-info part with its "@", a host label, ".", a registered   *)
(* host name, a port with its ":", a path or query, and "[" (an unclosed   *)
(* IPv6 bracket).  A response body is laid out as its marks (the literals  *)
(* the audit searches for), then its <script tags, then filler; every mark,*)
(* tag and filler character counts as one byte.                            *)

\* lines 10-19
WEAK_LINK_HOSTS ==
    {"linktr.ee", "carrd.co", "notion.site", "beacons.ai", "taplink.cc", "stan.store",
     "gumroad.com", "calendly.com"}

\* lines 22-31
PARKED_PHRASES ==
    { <<"domain parked">>, <<"this domain is parked">>, <<"buy this domain">>,
      <<"this website is ", "coming soon">>, <<"coming soon">>, <<"under construction">>,
      <<"site is not configured">>, <<"account suspended">> }

\* re.match(r"^[a-zA-Z][a-zA-Z0-9+\-.]*://", url)
Schemes == {"https://", "http://", "Http://", "ftp://"}
HasScheme(url) == url # <<>> /\ Head(url) \in Schemes

\* lines 45-51
normalize_url(url) ==
    LET u == Strip(url)
    IN  IF u = <<>> THEN <<>>
        ELSE IF ~HasScheme(u) THEN <<"https://">> \o u
        ELSE u

\* urllib.parse.urlparse(url).netloc: what follows the scheme up to the first
\* "/", "?" or "#"
PathStart == {"/p", "?q", "#f"}
Netloc(url) ==
    IF ~HasScheme(url) THEN <<>>
    ELSE LET rest == Tail(url)
             cut == {k \in 1..Len(rest) : rest[k] \in PathStart}
         IN  IF cut = {} THEN rest
             ELSE SubSeq(rest, 1, (CHOOSE k \in cut : \A m \in cut : k <= m) - 1)

\* urlparse raises ValueError("Invalid IPv6 URL") on an unclosed bracket
UrlparseRaises(url) == Contains(Netloc(url), "[")

\* lines 54-58
host_of(url) == IF UrlparseRaises(url) THEN <<>> ELSE Lower(Netloc(url))

\* str.endswith
EndsWith(s, suffix) ==
    Len(s) >= Len(suffix) /\ SubSeq(s, Len(s) - Len(suffix) + 1, Len(s)) = suffix

\* line 80
IsWeakLinkHost(host) ==
    \E h \in WEAK_LINK_HOSTS : host = <<h>> \/ EndsWith(host, <<".", h>>)

\* the six keys of a result
Result(score, verdict, findings, http_status, final_url, checked_at) ==
    [website_score |-> I(score), website_verdict |-> S(Append(<<>>, verdict)),
     website_findings |-> S(Join(findings, <<"; ">>)), website_http_status |-> http_status,
     website_final_url |-> S(final_url), website_checked_at |-> I(checked_at)]

\* lines 66-88: the checks before the fetch.  done: the function has returned
\* res; otherwise norm is the URL to fetch
AuditBegin(url, checked_at) ==
    LET raw == Strip(Or(url, E).s)
        norm == normalize_url(raw)
        host == host_of(norm)
    IN  IF raw = <<>>
        THEN [done |-> TRUE, norm |-> <<>>,
              res |-> Result(0, "no_website", << <<"No website listed.">> >>, None, <<>>,
                             checked_at)]
        ELSE IF IsWeakLinkHost(host)
        THEN [done |-> TRUE, norm |-> norm,
              res |-> Result(20, "weak_link_in_bio",
                             << <<"Link-in-bio page (Linktree/Carrd/Notion/etc). Strong upgrade opportunity.">> >>,
                             None, norm, checked_at)]
        ELSE [done |-> FALSE, norm |-> norm, res |-> None]

\* AuditConfig.max_bytes (line 37), scaled down
max_bytes == 50

\* resp.read(n) and data[:n]: the first n bytes of a body
Read(body, n) ==
    LET m == Take(body.marks, n)
        sn == Min2(body.scripts, n - Len(m))
    IN  [marks |-> m, scripts |-> sn, pad |-> Min2(body.pad, n - Len(m) - sn)]

\* len(data)
Size(body) == Len(body.marks) + body.scripts + body.pad

\* the exceptions the fetch can raise; all of them derive from Exception
FetchErrors == {"HTTPError", "URLError", "TimeoutError", "IncompleteRead", "ValueError"}

\* only URLError and its subclass HTTPError are handled
Catches_URLErrorOnly(clause, exc) ==
    \/ clause = "HTTPError" /\ exc = "HTTPError"
    \/ clause = "Exception" /\ exc \in {"HTTPError", "URLError"}

\* lines 102 and 111: `except urllib.error.HTTPError`, `except Exception`
Catches(clause, exc) ==
    \/ clause = "HTTPError" /\ exc = "HTTPError"
    \/ clause = "Exception" /\ exc \in FetchErrors

\* urllib.request.Request(norm) raises ValueError on a URL it cannot parse
RequestRaises(norm) == Contains(norm, "[")

\* lines 95-119: what the try statement leaves: an exception that escapes
\* (raised), a result returned by a handler (res), or the response read
\* (resp).  fetched: urlopen was called
Fetch(norm, env, checked_at) ==
    LET exc == IF RequestRaises(norm) THEN "ValueError"
               ELSE IF env.kind # "ok" THEN env.kind ELSE ""
        fetched == ~RequestRaises(norm)
    IN  IF exc = ""
        THEN [raised |-> FALSE, returned |-> FALSE, fetched |-> fetched, res |-> None,
              status |-> IF Truthy(env.status) THEN env.status ELSE None,
              final_url |-> IF env.final_url # <<>> THEN env.final_url ELSE norm,
              ctype |-> Lower(Or(env.ctype, E).s),
              data |-> Read(env.body, max_bytes + 1)]
        ELSE [raised |-> ~(Catches("HTTPError", exc) \/ Catches("Exception", exc)),
              returned |-> Catches("HTTPError", exc) \/ Catches("Exception", exc),
              fetched |-> fetched,
              res |-> IF Catches("HTTPError", exc)
                      THEN Result(5, "unreachable",
                                  << <<"HTTP error ">> \o NatStr(env.code) \o <<".">> >>,
                                  I(env.code), norm, checked_at)
                      ELSE Result(5, "unreachable",
                                  << <<"Could not fetch site (", exc, ").">> >>,
                                  None, norm, checked_at),
              status |-> None, final_url |-> <<>>, ctype |-> <<>>,
              data |-> [marks |-> <<>>, scripts |-> 0, pad |-> 0]]

\* line 122
IsHtmlType(ctype) ==
    HasSub(ctype, <<"text/html">>) \/ HasSub(ctype, <<"application/xhtml">>)

\* re.search(r"<title>\s*[^<]{3,}</title>", html_l): the marks that match
TitleMatches == {"<title>abc</title>", "<title> acme plumbing</title>"}

\* re.search(r"<h1[^>]*>\s*[^<]{2,}", html_l): the marks that match
H1Matches == {"<h1>ab", "<h1 class=x> ab"}

\* line 194
booking_kw ==
    { <<"book">>, <<"book", "ing">>, <<"quote">>, <<"estimate">>, <<"call">>, <<"whatsapp">>,
      <<"appointment">>, <<"schedule">> }

\* line 201
trust_kw ==
    { <<"review">>, <<"review", "s">>, <<"testimonial">>, <<"testimonial", "s">>,
      <<"before and after">>, <<"before & after">>, <<"rated">> }

\* line 221
ClampSite(score) == Max2(0, Min2(100, score))

\* the thresholds are exclusive
VerdictOf_Exclusive(score) ==
    IF score < 35 THEN "weak_site" ELSE IF score < 65 THEN "basic_site" ELSE "good_site"

\* lines 222-227
VerdictOf(score) ==
    IF score <= 35 THEN "weak_site" ELSE IF score <= 65 THEN "basic_site" ELSE "good_site"

\* lines 230-232
CapFindings(findings, verdict, has_contact) ==
    LET capped == Take(findings, 8)
    IN  IF verdict \in {"weak_site", "basic_site"} /\ ~has_contact
        THEN << <<"No obvious contact links (phone/WhatsApp/email).">> >> \o capped
        ELSE capped

\* lines 153-241: the additive score of an HTML page that is not parked
ScoredSite(html_l, truncated, status, final_url, checked_at) ==
    LET has(m) == HasSub(html_l.marks, m)
        has_viewport == has(<<"name=\"viewport\"">>) \/ has(<<"name='viewport'">>)
        has_title == \E k \in 1..Len(html_l.marks) : html_l.marks[k] \in TitleMatches
        has_meta_desc == has(<<"name=\"description\"">>) \/ has(<<"name='description'">>)
        has_h1 == \E k \in 1..Len(html_l.marks) : html_l.marks[k] \in H1Matches
        has_tel == has(<<"href=\"tel:">>) \/ has(<<"href='tel:">>)
        has_mail == has(<<"href=\"mailto:">>) \/ has(<<"href='mailto:">>)
        has_whatsapp == has(<<"wa.me/">>) \/ has(<<"api.", "whatsapp", ".com">>)
                        \/ has(<<"whatsapp">>)
        has_cta == \E k \in booking_kw : has(k)
        has_trust == \E k \in trust_kw : has(k)
        scripts == html_l.scripts
        score == 50
                 + (IF has_viewport THEN 10 ELSE 0 - 10)
                 + (IF has_title THEN 5 ELSE 0 - 6)
                 + (IF has_meta_desc THEN 5 ELSE 0)
                 + (IF has_h1 THEN 5 ELSE 0)
                 + (IF has_whatsapp THEN 10 ELSE 0)
                 + (IF has_tel THEN 8 ELSE 0)
                 + (IF has_mail THEN 4 ELSE 0)
                 + (IF has_cta THEN 6 ELSE 0 - 6)
                 + (IF has_trust THEN 6 ELSE 0)
                 + (IF scripts >= 35 THEN 0 - 8 ELSE IF scripts >= 20 THEN 0 - 4 ELSE 0)
                 + (IF truncated THEN 0 - 6 ELSE 0)
        findings ==
               (IF has_viewport THEN << <<"Has mobile viewport meta.">> >>
                ELSE << <<"Missing mobile viewport meta (mobile UX risk).">> >>)
            \o (IF has_title THEN <<>> ELSE << <<"Missing/empty <title>.">> >>)
            \o (IF has_meta_desc THEN <<>>
                ELSE << <<"Missing meta description (SEO baseline).">> >>)
            \o (IF has_h1 THEN <<>> ELSE << <<"Missing/weak H1 (clarity).">> >>)
            \o (IF has_whatsapp THEN << <<"Has WhatsApp contact.">> >> ELSE <<>>)
            \o (IF has_tel THEN << <<"Has phone link.">> >> ELSE <<>>)
            \o (IF has_cta THEN <<>> ELSE << <<"No obvious booking/quote CTA language.">> >>)
            \o (IF has_trust THEN << <<"Has trust signals (reviews/testimonials).">> >>
                ELSE << <<"Weak trust signals (no clear reviews/testimonials found).">> >>)
            \o (IF scripts >= 35
                THEN << <<"Very script-heavy (">> \o NatStr(scripts) \o <<" scripts).">> >>
                ELSE IF scripts >= 20
                THEN << <<"Somewhat script-heavy (">> \o NatStr(scripts) \o <<" scripts).">> >>
                ELSE <<>>)
            \o (IF truncated THEN << <<"HTML is large/truncated (page weight risk).">> >>
                ELSE <<>>)
        clamped == ClampSite(score)
        verdict == VerdictOf(clamped)
    IN  Result(clamped, verdict,
               CapFindings(findings, verdict, has_tel \/ has_whatsapp \/ has_mail),
               status, final_url, checked_at)

\* lines 121-241: the verdict on a response that was read
Classify(resp, checked_at) ==
    LET truncated == Size(resp.data) > max_bytes
        html == Read(resp.data, max_bytes)
        html_l == [html EXCEPT !.marks = Lower(@)]
    IN  IF ~IsHtmlType(resp.ctype)
        THEN Result(45, "basic_site",
                    << <<"Non-HTML content-type: ">>
                       \o (IF resp.ctype # <<>> THEN resp.ctype ELSE <<"unknown">>) >>,
                    resp.status, resp.final_url, checked_at)
        ELSE IF \E ph \in PARKED_PHRASES : HasSub(html_l.marks, ph)
        THEN Result(10, "parked_or_placeholder",
                    << <<"Looks parked/placeholder/coming-soon.">> >>,
                    resp.status, resp.final_url, checked_at)
        ELSE ScoredSite(html_l, truncated, resp.status, resp.final_url, checked_at)

\* lines 95-241: the fetch and everything after it
AuditRest(norm, env, checked_at) ==
    LET f == Fetch(norm, env, checked_at)
    IN  [raised |-> f.raised, fetched |-> f.fetched,
         res |-> IF f.raised THEN None
                 ELSE IF f.returned THEN f.res
                 ELSE Classify(f, checked_at)]

---------------------------------------------------------------------------
(* One call of audit_website: the URL and the answer the network will give *)
(* are drawn at the start                                                  *)

\* the URLs audited
SiteUrls ==
    {None, E, S(<<" ">>)} \cup
    { S(ws \o scheme \o user \o label \o name \o port \o path \o ws) :
        ws \in {<<>>, <<" ">>},
        scheme \in {<<>>, <<"https://">>, <<"Http://">>},
        user \in {<<>>, <<"u@">>},
        label \in {<<>>, <<"sub", ".">>},
        name \in {<<"linktr.ee">>, <<"Calendly.com">>, <<"notlinktr.ee">>, <<"acme.com">>,
                  <<"[">>},
        port \in {<<>>, <<":443">>},
        path \in {<<>>, <<"/p">>} }

\* the marks a page may hold, in document order
AllMarks ==
    <<"name=\"viewport\"", "<title>abc</title>", "<title>ab</title>", "name='description'",
      "<h1>ab", "href=\"tel:", "href='mailto:", "wa.me/", "WhatsApp", "quote", "rated",
      "Coming Soon">>

Marks(set) == SelectSeq(AllMarks, LAMBDA m : m \in set)

OkEnv(status, final_url, ctype, marks, scripts, pad) ==
    [kind |-> "ok", code |-> 0, status |-> status, final_url |-> final_url, ctype |-> ctype,
     body |-> [marks |-> marks, scripts |-> scripts, pad |-> pad]]

ErrEnv(kind, code) ==
    [kind |-> kind, code |-> code, status |-> None, final_url |-> <<>>, ctype |-> None,
     body |-> [marks |-> <<>>, scripts |-> 0, pad |-> 0]]

Html == S(<<"text/html">>)

\* every page over the marks, light or script-heavy, within the byte cap or not
PageEnvs ==
    { OkEnv(I(200), <<>>, Html, Marks(set), scripts, pad) :
        set \in SUBSET {AllMarks[k] : k \in 1..Len(AllMarks)},
        scripts \in {0, 20, 35},
        pad \in {0, max_bytes + 1} }

\* failures, other content types, and pages at the edges of the thresholds
FewEnvs ==
    { ErrEnv("HTTPError", 404), ErrEnv("HTTPError", 500), ErrEnv("URLError", 0),
      ErrEnv("TimeoutError", 0), ErrEnv("IncompleteRead", 0),
      OkEnv(I(200), <<"https://", "acme.com", "/p">>, None, <<"Coming Soon">>, 0, 0),
      OkEnv(I(200), <<>>, S(<<"application/pdf">>), <<"Coming Soon">>, 0, 0),
      OkEnv(None, <<>>, S(<<"application/xhtml", "+xml">>), <<"name='viewport'">>, 19, 0),
      OkEnv(I(0), <<>>, S(<<"Text/HTML", ";charset=utf-8">>),
            <<"<title> acme plumbing</title>", "<h1 class=x> ab", "call">>, 34, 0),
      OkEnv(I(200), <<>>, Html, <<"this website is ", "Coming Soon">>, 0, 0),
      OkEnv(I(200), <<>>, Html, <<>>, 0, max_bytes),
      OkEnv(I(200), <<>>, Html, AllMarks, 35, 0) }

SiteCases ==
    (SiteUrls \X FewEnvs) \cup ({S(<<"acme.com", "/p">>)} \X PageEnvs)

\* the audit variable while a call of audit_website is under way
AudCall(a, url, env) ==
    [a EXCEPT !.stage = "call", !.url = url, !.env = env, !.checked_at = 0, !.norm = <<>>,
              !.res = None, !.tried = FALSE, !.fetched = FALSE]

\* no sweep and no call
AudIdle ==
    [jpc |-> "none", max_sites |-> 0, urls |-> <<>>, i |-> 1, out |-> <<>>, envs |-> <<>>,
     w |-> 1, sweeps |-> 0, audited |-> {},
     stage |-> "idle", url |-> None, env |-> ErrEnv("URLError", 0), checked_at |-> 0,
     norm |-> <<>>, res |-> None, tried |-> FALSE, fetched |-> FALSE]

InitSite ==
    /\ leads = <<>>
    /\ seq = 0
    /\ clock = 1
    /\ pc = [p \in Procs |-> "idle"]
    /\ job = [p \in Procs |-> NoJob]
    /\ last = NoLast
    /\ ops = 0
    /\ srv = NoSrv
    /\ gr = NoGr
    /\ nin = [row |-> <<>>, source |-> None]
    /\ nout = [stage |-> "off", src |-> <<>>, raised |-> FALSE, out |-> NoOut,
               handle |-> <<>>, persist |-> FALSE]
    /\ \E c \in SiteCases : aud = AudCall(AudIdle, c[1], c[2])
    /\ sc = NoSc

\* lines 66-88
AuditWebsiteBegin ==
    /\ aud.stage = "call"
    /\ \E b \in {AuditBegin(aud.url, clock)} :
          aud' = [aud EXCEPT !.stage = IF b.done THEN "ret" ELSE "fetch",
                             !.checked_at = clock, !.norm = b.norm, !.res = b.res]
    /\ UNCHANGED <<leads, seq, clock, pc, job, last, ops, nin, nout, sc, srv, gr>>

\* lines 90-241; env is the answer of the network
AuditWebsiteFetch(env) ==
    /\ aud.stage = "fetch"
    /\ \E r \in {AuditRest(aud.norm, env, aud.checked_at)} :
          aud' = [aud EXCEPT !.stage = IF r.raised THEN "raised" ELSE "ret", !.env = env,
                             !.res = r.res, !.tried = TRUE, !.fetched = r.fetched]
    /\ UNCHANGED <<leads, seq, clock, pc, job, last, ops, nin, nout, sc, srv, gr>>

NextSite == AuditWebsiteBegin \/ AuditWebsiteFetch(aud.env)

SpecSite == InitSite /\ [][NextSite]_vars

---------------------------------------------------------------------------
(* Properties of audit_website (specification SpecSite)                    *)

ResultKeys ==
    {"website_score", "website_verdict", "website_findings", "website_http_status",
     "website_final_url", "website_checked_at"}

Returned == aud.stage = "ret"
VerdictIs(v) == aud.res.website_verdict = S(<<v>>)
ScoreIs(n) == aud.res.website_score = I(n)

\* the fetch of the call was tried and failed: the request could not be built,
\* or the network answered with an error
FetchFailed == aud.tried /\ (Contains(aud.norm, "[") \/ aud.env.kind # "ok")

\* C11: audit_website never raises; what it returns has the six keys; after a
\* failed fetch the verdict is unreachable with score 5, and after an HTTP
\* error website_http_status is the status code of the error.
C11_AuditNeverRaises ==
    /\ aud.stage # "raised"
    /\ Returned =>
          /\ DOMAIN aud.res = ResultKeys
          /\ aud.res.website_checked_at = I(aud.checked_at)
          /\ FetchFailed => VerdictIs("unreachable") /\ ScoreIs(5)
          /\ (FetchFailed /\ aud.fetched /\ aud.env.kind = "HTTPError")
                => aud.res.website_http_status = I(aud.env.code)

\* a fetch has ended in HTTP 404 and the call has returned that status
C11_Witness ==
    /\ Returned /\ aud.fetched /\ aud.env.kind = "HTTPError"
    /\ aud.res.website_http_status = I(404) /\ VerdictIs("unreachable")

\* the host of a URL: its network location without user-info and port, in
\* lower case
Hostname(url) == Lower(SelectSeq(Netloc(url), LAMBDA a : a \notin {"u@", ":443"}))

Blank == Strip(Or(aud.url, E).s) = <<>>

AggregatorHost ==
    \E h \in WEAK_LINK_HOSTS :
        Hostname(aud.norm) = <<h>> \/ EndsWith(Hostname(aud.norm), <<".", h>>)

HtmlResponse ==
    LET ctype == Lower(Or(aud.env.ctype, E).s)
    IN  HasSub(ctype, <<"text/html">>) \/ HasSub(ctype, <<"application/xhtml", "+xml">>)

PlaceholderPage ==
    \E ph \in PARKED_PHRASES : HasSub(Lower(aud.env.body.marks), ph)

\* C12: the verdict of a call that has returned is the first that matches, in
\* the order: blank URL, no_website/0; host equal to or a subdomain of a
\* link-aggregator host, weak_link_in_bio/20; fetch error, unreachable/5;
\* content type not HTML, basic_site/45; placeholder phrase in the page,
\* parked_or_placeholder/10; otherwise one of the three scored verdicts.
C12_FirstMatchWins ==
    Returned =>
        IF Blank THEN VerdictIs("no_website") /\ ScoreIs(0)
        ELSE IF AggregatorHost THEN VerdictIs("weak_link_in_bio") /\ ScoreIs(20)
        ELSE IF Contains(aud.norm, "[") \/ aud.env.kind # "ok"
        THEN VerdictIs("unreachable") /\ ScoreIs(5)
        ELSE IF ~HtmlResponse THEN VerdictIs("basic_site") /\ ScoreIs(45)
        ELSE IF PlaceholderPage THEN VerdictIs("parked_or_placeholder") /\ ScoreIs(10)
        ELSE VerdictIs("weak_site") \/ VerdictIs("basic_site") \/ VerdictIs("good_site")

\* C13: urlopen is called only in a call whose URL is not blank and whose host
\* is neither a link-aggregator host nor a subdomain of one.
C13_FetchOnlyAfterChecks == aud.fetched => ~Blank /\ ~AggregatorHost

\* the call has returned from the scored path (line 234)
OnScoredPath == Returned /\ aud.tried /\ ~FetchFailed /\ HtmlResponse /\ ~PlaceholderPage

\* the marks of the page, in lower case
Page == {Lower(aud.env.body.marks)[k] : k \in 1..Len(aud.env.body.marks)}

Pts(present, plus, minus) == IF present THEN plus ELSE 0 - minus

\* base 50 plus the deltas of the claim
ListedSum ==
    50
    + Pts(Page \cap {"name=\"viewport\"", "name='viewport'"} # {}, 10, 10)
    + Pts(Page \cap {"<title>abc</title>", "<title> acme plumbing</title>"} # {}, 5, 6)
    + Pts(Page \cap {"name=\"description\"", "name='description'"} # {}, 5, 0)
    + Pts(Page \cap {"<h1>ab", "<h1 class=x> ab"} # {}, 5, 0)
    + Pts(Page \cap {"wa.me/", "whatsapp"} # {}, 10, 0)
    + Pts(Page \cap {"href=\"tel:", "href='tel:"} # {}, 8, 0)
    + Pts(Page \cap {"href=\"mailto:", "href='mailto:"} # {}, 4, 0)
    + Pts(Page \cap {"book", "quote", "estimate", "call", "whatsapp", "appointment",
                     "schedule"} # {}, 6, 6)
    + Pts(Page \cap {"review", "testimonial", "rated", "before and after",
                     "before & after"} # {}, 6, 0)
    + (IF aud.env.body.scripts >= 35 THEN 0 - 8
       ELSE IF aud.env.body.scripts >= 20 THEN 0 - 4 ELSE 0)
    + Pts(Size(aud.env.body) > max_bytes, 0 - 6, 0)

ListedScore == IF ListedSum > 100 THEN 100 ELSE IF ListedSum < 0 THEN 0 ELSE ListedSum

\* C14: on the scored path website_score is the base 50 plus the listed
\* deltas, clamped to 0..100, and the verdict is weak_site exactly when that
\* score is at most 35, basic_site exactly when it is 36..65 and good_site
\* exactly when it is above 65.
C14_ScoreAndVerdict ==
    OnScoredPath =>
        /\ ScoreIs(ListedScore)
        /\ VerdictIs("weak_site") <=> ListedScore <= 35
        /\ VerdictIs("basic_site") <=> (36 <= ListedScore /\ ListedScore <= 65)
        /\ VerdictIs("good_site") <=> ListedScore > 65

\* a page with every positive signal: the sum exceeds 100 and is clamped
C14_Witness == OnScoredPath /\ ListedSum > 100 /\ ScoreIs(100) /\ VerdictIs("good_site")

\* the entries of the findings string
Entries(findings) == Cardinality({k \in 1..Len(findings.s) : findings.s[k] = "; "}) + 1

\* C15: website_findings of a returned result has at most 8 entries, the
\* synthetic "no obvious contact links" finding included, and that finding is
\* the first entry when it is there.
C15_FindingsCapped ==
    Returned =>
        /\ Entries(aud.res.website_findings) <= 8
        /\ \A k \in 1..Len(aud.res.website_findings.s) :
              aud.res.website_findings.s[k] = "No obvious contact links (phone/WhatsApp/email)."
                 => k = 1

---------------------------------------------------------------------------
(* The audit sweep: main._audit_job with db.leads_needing_website_audit,   *)
(* audit.audit_leads and db.update_website_audit, next to the ingestion    *)

MaxSweeps == 2

\* a < b in SQLite's order of INTEGER values, where NULL is the smallest
SqlLess(a, b) == IF a.t = "none" THEN b.t # "none" ELSE b.t # "none" /\ a.i < b.i

\* ORDER BY score DESC, followers DESC, last_seen_at DESC: x comes before y
Precedes(x, y) ==
    \/ SqlLess(y.score, x.score)
    \/ x.score = y.score /\ SqlLess(y.followers, x.followers)
    \/ x.score = y.score /\ x.followers = y.followers
       /\ SqlLess(y.last_seen_at, x.last_seen_at)

\* db.py lines 326-338: the positions of the rows the SELECT may return, in
\* the order it returns them (rows that tie may come in any order); a
\* negative LIMIT is no limit
leads_needing_website_audit(tbl, max_sites) ==
    LET cand == {k \in 1..Len(tbl) : tbl[k].website_checked_at.t = "none"}
        n == IF max_sites < 0 \/ max_sites > Cardinality(cand) THEN Cardinality(cand)
             ELSE max_sites
    IN  {q \in [1..n -> cand] :
           /\ \A a, b \in 1..n : a < b => q[a] # q[b] /\ ~Precedes(tbl[q[b]], tbl[q[a]])
           /\ \A k \in cand : (\A a \in 1..n : q[a] # k)
                 => \A a \in 1..n : ~Precedes(tbl[k], tbl[q[a]])}

\* main.py line 77
id_urls(tbl, q) == [a \in 1..Len(q) |-> <<tbl[q[a]].id, S(StrOf(tbl[q[a]].website))>>]

\* a result that reports a failed fetch is left out
OutAppend_SkipUnreachable(out, lead_id, result) ==
    IF result.website_verdict = S(<<"unreachable">>) THEN out
    ELSE Append(out, <<lead_id, result>>)

\* audit.py line 248
OutAppend(out, lead_id, result) == Append(out, <<lead_id, result>>)

\* the rows ingested around the sweeps
RowS1 == << <<"handle", S(<<"a">>)>>, <<"website", S(<<"linktr.ee", "/p">>)>>,
            <<"score", S(<<"7">>)>>, <<"name", S(<<"n">>)>> >>
RowS2 == << <<"handle", S(<<"b">>)>>, <<"website", S(<<" ", "acme.com">>)>>,
            <<"score", S(<<"7">>)>>, <<"followers", S(<<"3">>)>> >>
RowS3 == << <<"handle", S(<<"c">>)>>, <<"bio", S(<<"plumber">>)>> >>
SweepRows == {RowS1, RowS2, RowS3}
SweepBatches == {<<r>> : r \in SweepRows}

\* the values of max_sites the sweeps are started with
MaxSites == {1, 25}

\* the answers of the network during a sweep
SweepEnvs ==
    { ErrEnv("HTTPError", 404),
      OkEnv(I(200), <<>>, Html, <<"name=\"viewport\"", "<title>abc</title>", "quote">>, 0, 0) }

InitSweep ==
    /\ leads = <<>>
    /\ seq = 0
    /\ clock = 1
    /\ pc = [p \in Procs |-> "idle"]
    /\ job = [p \in Procs |-> NoJob]
    /\ last = NoLast
    /\ ops = 0
    /\ srv = NoSrv
    /\ gr = NoGr
    /\ nin = [row |-> <<>>, source |-> None]
    /\ nout = [stage |-> "off", src |-> <<>>, raised |-> FALSE, out |-> NoOut,
               handle |-> <<>>, persist |-> FALSE]
    /\ aud = [AudIdle EXCEPT !.jpc = "idle"]
    /\ sc = NoSc

\* main.py lines 70-77: the candidates are selected
SweepStart(max_sites) ==
    /\ aud.jpc \in {"idle", "done", "error"}
    /\ aud.sweeps < MaxSweeps
    /\ \E q \in leads_needing_website_audit(leads, max_sites) :
          aud' = [aud EXCEPT !.jpc = "auditing", !.max_sites = max_sites,
                             !.urls = id_urls(leads, q), !.i = 1, !.out = <<>>,
                             !.envs = <<>>, !.w = 1]
    /\ UNCHANGED <<leads, seq, clock, pc, job, last, ops, nin, nout, sc, srv, gr>>

\* audit.py lines 246-247: the next pair is audited
AuditLeadsCall ==
    /\ aud.jpc = "auditing" /\ aud.stage = "idle"
    /\ aud.i <= Len(aud.urls)
    /\ aud' = AudCall(aud, aud.urls[aud.i][2], AudIdle.env)
    /\ UNCHANGED <<leads, seq, clock, pc, job, last, ops, nin, nout, sc, srv, gr>>

\* audit.py lines 248-249: the result is appended; an exception of
\* audit_website would leave audit_leads and end the job (main.py line 82)
AuditLeadsAppend ==
    /\ aud.jpc = "auditing" /\ aud.stage \in {"ret", "raised"}
    /\ aud' = IF aud.stage = "raised"
              THEN [aud EXCEPT !.jpc = "error", !.stage = "idle", !.sweeps = @ + 1]
              ELSE [aud EXCEPT !.stage = "idle", !.i = @ + 1,
                               !.out = OutAppend(@, aud.urls[aud.i][1], aud.res),
                               !.envs = Append(@, [tried |-> aud.tried, env |-> aud.env])]
    /\ UNCHANGED <<leads, seq, clock, pc, job, last, ops, nin, nout, sc, srv, gr>>

\* audit.py line 250, main.py line 78
AuditLeadsReturn ==
    /\ aud.jpc = "auditing" /\ aud.stage = "idle"
    /\ aud.i > Len(aud.urls)
    /\ aud' = [aud EXCEPT !.jpc = "writing", !.w = 1]
    /\ UNCHANGED <<leads, seq, clock, pc, job, last, ops, nin, nout, sc, srv, gr>>

\* main.py lines 79-80: one result is written
SweepWrite ==
    /\ aud.jpc = "writing"
    /\ aud.w <= Len(aud.out)
    /\ leads' = AuditWritten(leads, aud.out[aud.w][1], aud.out[aud.w][2])
    /\ aud' = [aud EXCEPT !.w = @ + 1, !.audited = @ \cup {aud.out[aud.w][1]}]
    /\ UNCHANGED <<seq, clock, pc, job, last, ops, nin, nout, sc, srv, gr>>

\* main.py line 81
SweepFinish ==
    /\ aud.jpc = "writing"
    /\ aud.w > Len(aud.out)
    /\ aud' = [aud EXCEPT !.jpc = "done", !.sweeps = @ + 1]
    /\ UNCHANGED <<leads, seq, clock, pc, job, last, ops, nin, nout, sc, srv, gr>>

NextSweep ==
    \/ Tick
    \/ \E p \in Importer, rows \in SweepBatches :
          StartUpsert(p, rows, S(<<"x">>), <<FALSE, "None">>)
    \/ \E p \in Importer : UpsertRow(p)
    \/ \E p \in Importer : ReturnUpsert(p)
    \/ \E max_sites \in MaxSites : SweepStart(max_sites)
    \/ AuditLeadsCall
    \/ AuditWebsiteBegin
    \/ \E env \in SweepEnvs : AuditWebsiteFetch(env)
    \/ AuditLeadsAppend
    \/ AuditLeadsReturn
    \/ SweepWrite
    \/ SweepFinish

SpecSweep == InitSweep /\ [][NextSweep]_vars

---------------------------------------------------------------------------
(* Properties of the audit sweep (specification SpecSweep)                 *)

\* res is a result of auditing url: no_website exactly for a blank URL,
\* unreachable after a failed fetch, and the URL it reports is the given one
ResultOf(url, call, res) ==
    LET raw == Strip(Or(url, E).s)
    IN  /\ DOMAIN res = ResultKeys
        /\ res.website_verdict = S(<<"no_website">>) <=> raw = <<>>
        /\ raw # <<>> => res.website_final_url = S(normalize_url(raw))
        /\ (call.tried /\ call.env.kind # "ok") => res.website_verdict = S(<<"unreachable">>)

C16_Results ==
    /\ aud.jpc # "error"
    /\ aud.jpc \in {"auditing", "writing"} =>
          /\ Len(aud.out) = aud.i - 1
          /\ Len(aud.out) <= Len(aud.urls)
          /\ \A k \in 1..Len(aud.out) :
                /\ aud.out[k][1] = aud.urls[k][1]
                /\ ResultOf(aud.urls[k][2], aud.envs[k], aud.out[k][2])
    /\ aud.jpc = "writing" => Len(aud.out) = Len(aud.urls)

C16_Step ==
    /\ aud'.out # aud.out =>
          \/ aud'.out = <<>> /\ aud.jpc # "auditing"
          \/ /\ aud.stage = "ret"
             /\ aud'.out = Append(aud.out, <<aud.urls[Len(aud.out) + 1][1], aud.res>>)
    /\ (aud.stage = "idle" /\ aud'.stage = "call") => aud'.url = aud.urls[Len(aud.out) + 1][2]

\* C16: audit_leads audits its pairs one after another, each call starting
\* after the result of the one before was appended; the results it returns
\* are one per pair, in input order, each with the identity of its pair and
\* for the URL of its pair; a failed fetch ends neither the batch nor the job.
C16_OneResultPerPair == []C16_Results /\ [][C16_Step]_vars

\* audit_leads has returned two results, the first for a fetch that failed
C16_Witness ==
    /\ aud.jpc = "writing" /\ Len(aud.out) = 2
    /\ aud.out[1][2].website_verdict = S(<<"unreachable">>)
    /\ aud.out[2][2].website_verdict = S(<<"weak_link_in_bio">>)

WebsiteCols ==
    {"website_score", "website_verdict", "website_findings", "website_checked_at",
     "website_final_url", "website_http_status"}

Unset(tbl) == {tbl[k].id : k \in {m \in 1..Len(tbl) : tbl[m].website_checked_at = None}}
Selected(a) == {a.urls[k][1] : k \in 1..Len(a.urls)}

\* a step of the sweep, as opposed to a step of the ingestion or of the clock
SweepStep == aud' # aud
Selects == aud.jpc # "auditing" /\ aud'.jpc = "auditing"

\* the sweep changes nothing but the six website_* columns, and those only
\* of the lead whose result it writes
C17_Frame ==
    SweepStep =>
        /\ Len(leads') = Len(leads)
        /\ \A k \in 1..Len(leads) :
              /\ \A c \in (DOMAIN NoLead) \ WebsiteCols : leads'[k][c] = leads[k][c]
              /\ leads'[k] # leads[k] =>
                    /\ aud.jpc = "writing" /\ leads[k].id = aud.out[aud.w][1]
                    /\ leads'[k].website_checked_at # None

\* no lead a sweep has written is selected again
C17_NotAgain == Selects => Selected(aud') \cap aud.audited = {}

C17_Limited ==
    Selects =>
        /\ Selected(aud') \subseteq Unset(leads)
        /\ Len(aud'.urls) = Cardinality(Selected(aud'))
        /\ Len(aud'.urls) = Min2(aud'.max_sites, Cardinality(Unset(leads)))
        /\ \A x \in Unset(leads) \ Selected(aud') : \A y \in Selected(aud') :
              ~Precedes(RowOf(leads, x), RowOf(leads, y))

---------------------------------------------------------------------------
(* calls of scoring.score_row on one row                                   *)

\* the keys score_row reads (lines 19-26); a key the row lacks reads as None
ScoreFields ==
    {"name", "bio", "location", "website", "phone", "recent_post_snippet",
     "signal_keywords_matched", "profile_url"}

Names == {None, S(<<"WhatsApp">>)}
Bios ==
    {None,
     S(<<"plumber">>),
     S(<<"developer", " ", "github">>),
     S(<<"vp">>),
     S(<<"plumber", " ", "call", " ", "developer">>),
     S(<<"owner", " ", "coach", " ", "need", " ", "more", " ", "leads">>),
     S(<<"plumber", " ", "electrician", " ", "handyman", " ", "book", " ", "now">>),
     S(<<"director", " ", "engineer">>)}
Websites == {None, S(<<" ">>), S(<<"linktr.ee", "/", "a">>), S(<<"acme.com">>)}
Phones == {None, I(5)}
Snippets == {None, S(<<"a", "@x.yz">>), S(<<"tel:", "5">>)}

ScoreRows ==
    {[f \in ScoreFields |->
        CASE f = "name" -> n [] f = "bio" -> b [] f = "website" -> w
          [] f = "phone" -> p [] f = "recent_post_snippet" -> x [] OTHER -> None] :
     n \in Names, b \in Bios, w \in Websites, p \in Phones, x \in Snippets}

\* the row with a WhatsApp mention added to one of its text fields
MentionFields == {"name", "bio", "website", "recent_post_snippet"}
AddMention(r, f) ==
    [r EXCEPT ![f] = S((IF StrOf(r[f]) = <<>> THEN <<>> ELSE StrOf(r[f]) \o <<" ">>)
                       \o <<"WhatsApp">>)]

MaxCalls == 2

NoRes == [score |-> 0, reasons |-> <<>>, state |-> "unknown", fit |-> 0]

InitScore ==
    /\ leads = <<>>
    /\ seq = 0
    /\ clock = 1
    /\ pc = [p \in Procs |-> "idle"]
    /\ job = [p \in Procs |-> NoJob]
    /\ last = NoLast
    /\ ops = 0
    /\ srv = NoSrv
    /\ gr = NoGr
    /\ nin = [row |-> <<>>, source |-> None]
    /\ nout = [stage |-> "off", src |-> <<>>, raised |-> FALSE, out |-> NoOut,
               handle |-> <<>>, persist |-> FALSE]
    /\ aud = NoAud
    /\ \E r \in ScoreRows :
          sc = [stage |-> "call", arg |-> r, row |-> r, calls |-> 0, first |-> NoRes,
                res |-> NoRes, field |-> "", with |-> NoRes]

\* score, reasons = score_row(row): the row is read through r.get only
ScoreRowCall ==
    /\ sc.stage = "call" \/ (sc.stage = "ret" /\ sc.calls < MaxCalls)
    /\ \E res \in {score_row(sc.row)} :
          sc' = [sc EXCEPT !.stage = "ret", !.calls = sc.calls + 1, !.res = res,
                           !.first = IF sc.calls = 0 THEN res ELSE sc.first]
    /\ UNCHANGED <<leads, seq, clock, pc, job, last, ops, nin, nout, aud, srv, gr>>

\* score_row of the same row with a WhatsApp mention added to field f
ScoreMentionCall(f) ==
    /\ sc.stage = "ret"
    /\ sc' = [sc EXCEPT !.stage = "mention", !.field = f,
                        !.with = score_row(AddMention(sc.row, f))]
    /\ UNCHANGED <<leads, seq, clock, pc, job, last, ops, nin, nout, aud, srv, gr>>

NextScore == ScoreRowCall \/ \E f \in MentionFields : ScoreMentionCall(f)

SpecScore == InitScore /\ [][NextScore]_vars

C19_MentionNeverLowers == sc.stage = "mention" => sc.with.score >= sc.first.score

Tags == {"intent:", "pain:", "svc:", "role:", "decision:", "contact:", "neg:", "fit:"}
WebsiteStateCodes ==
    { <<"no_website_but_contact">>, <<"no_website">>, <<"weak_link_in_bio">>,
      <<"has_website">> }

Returns == {sc.res} \cup (IF sc.stage = "mention" THEN {sc.with} ELSE {})

\* C20 as stated: every reason code of score_row starts with one of the
\* eight category tags, and the codes come in the order of the rules.
C20_EveryCodeTagged ==
    sc.stage # "call" =>
        \A res \in Returns : \A k \in 1..Len(res.reasons) : res.reasons[k][1] \in Tags

\* the place of a reason code in the order of the rules
RuleOf(reason) ==
    CASE reason[1] = "intent:" -> 1
      [] reason[1] = "pain:" -> 2
      [] reason[1] = "svc:" -> 3
      [] reason[1] = "role:" -> 4
      [] reason[1] = "decision:" -> 5
      [] reason \in WebsiteStateCodes -> 6
      [] reason[1] = "fit:" -> 7
      [] reason[1] = "contact:" -> 8
      [] reason = <<"neg:", "committee">> -> 10
      [] reason[1] = "neg:" -> 9
      [] OTHER -> 0

\* the place of a token in its table, of a contact channel among the four
PlaceIn(tbl, tok) == CHOOSE k \in 1..Len(tbl) : tbl[k][1] = tok
Channels == << <<"whatsapp">>, <<"phone">>, <<"phone_link">>, <<"email">> >>
Place(reason) ==
    CASE reason[1] = "svc:" -> PlaceIn(service_tokens, reason[2])
      [] reason[1] = "role:" -> PlaceIn(solo_seller_tokens, reason[2])
      [] reason[1] = "contact:" -> PlaceIn(Channels, reason[2])
      [] reason[1] = "neg:" -> PlaceIn(negative, reason[2])
      [] OTHER -> 0

InRuleOrder(reasons) ==
    /\ \A k \in 1..Len(reasons) : RuleOf(reasons[k]) # 0
    /\ Cardinality({k \in 1..Len(reasons) : reasons[k] \in WebsiteStateCodes}) = 1
    /\ \A k \in 1..(Len(reasons) - 1) :
          \/ RuleOf(reasons[k]) < RuleOf(reasons[k + 1])
          \/ /\ RuleOf(reasons[k]) = RuleOf(reasons[k + 1])
             /\ RuleOf(reasons[k]) \in {3, 4, 8, 9}
             /\ Place(reasons[k]) < Place(reasons[k + 1])

\* C20 (amended): every reason code of score_row is one of the four
\* website-state codes, which carry no tag and of which every call returns
\* exactly one, or starts with one of the eight category tags; the codes
\* come in the order of the rules, and within a rule in the order of its
\* table.
C20_TaggedInRuleOrder ==
    sc.stage # "call" =>
        \A res \in Returns :
            /\ InRuleOrder(res.reasons)
            /\ \A k \in 1..Len(res.reasons) :
                  res.reasons[k] \in WebsiteStateCodes \/ res.reasons[k][1] \in Tags

\* the 20 points of the intent rule come before the 32 of each service token
C20_Witness ==
    /\ sc.stage = "ret"
    /\ Len(sc.res.reasons) >= 8
    /\ sc.res.reasons[1][1] = "intent:"
    /\ sc.res.reasons[2] = <<"svc:", "electrician">>
    /\ sc.res.reasons[3] = <<"svc:", "plumber">>
    /\ \E k \in 1..Len(sc.res.reasons) : sc.res.reasons[k] = <<"weak_link_in_bio">>

HasCode(res, tag) == \E k \in 1..Len(res.reasons) : res.reasons[k][1] = tag
StateCode(res) ==
    CASE res.state = "none" -> { <<"no_website_but_contact">>, <<"no_website">> }
      [] res.state = "weak" -> { <<"weak_link_in_bio">> }
      [] res.state = "strong" -> { <<"has_website">> }
      [] OTHER -> {}

\* C21: every call classifies the website as none, weak or strong and gives
\* the one reason of that state; the fit bonus is 22 for a local-service
\* token with state none, 18 with state weak, and absent otherwise.
C21_StateAndFit ==
    sc.stage # "call" =>
        \A res \in Returns :
            /\ res.state \in {"none", "weak", "strong"}
            /\ \E k \in 1..Len(res.reasons) :
                  /\ res.reasons[k] \in StateCode(res)
                  /\ \A m \in 1..Len(res.reasons) :
                        res.reasons[m] \in WebsiteStateCodes => m = k
            /\ res.fit = (CASE HasCode(res, "svc:") /\ res.state = "none" -> 22
                            [] HasCode(res, "svc:") /\ res.state = "weak" -> 18
                            [] OTHER -> 0)
            /\ HasCode(res, "fit:") <=> res.fit > 0

\* a local service without a website: none, 22; the same row with a
\* website that is no link-in-bio page: strong, no bonus
C21_Witness ==
    /\ sc.stage = "mention" /\ sc.field = "website"
    /\ sc.res.state = "none" /\ sc.res.fit = 22
    /\ sc.with.state = "strong" /\ sc.with.fit = 0 /\ HasCode(sc.with, "svc:")

---------------------------------------------------------------------------
(* ingestion of rows that the scoring engine gives many reason codes       *)

ManyServices ==
    <<"call", " ", "electrician", " ", "electrical", " ", "plumber", " ", "plumbing", " ",
      "handyman", " ", "carpenter", " ", "carpentry", " ", "gardener", " ", "gardening",
      " ", "painter", " ", "installer", " ", "hvac", " ", "roofing", " ", "contractor", " ",
      "landscaper", " ", "cleaner", " ", "cleaning", " ", "developer">>

RowMany == << <<"handle", S(<<"m">>)>>, <<"bio", S(ManyServices)>> >>
RowManyOwn == << <<"handle", S(<<"m">>)>>, <<"bio", S(ManyServices)>>,
                 <<"score", S(<<"7">>)>>, <<"reason", S(<<"r">>)>> >>
RowManyBlank == << <<"handle", S(<<"m">>)>>, <<"bio", S(ManyServices)>>,
                   <<"score", S(<<" ">>)>>, <<"reason", S(<<"r">>)>> >>
IngestRows == {RowMany, RowManyOwn, RowManyBlank, RowA1, RowA3}
IngestBatches == {<<r>> : r \in IngestRows}

NextIngest ==
    \/ Tick
    \/ \E p \in Procs :
          \/ \E rows \in IngestBatches, mode \in ScoreModes :
                StartUpsert(p, rows, S(<<"x">>), mode)
          \/ UpsertRow(p)
          \/ ReturnUpsert(p)

SpecIngest == Init /\ [][NextIngest]_vars

\* the normalized row of the merge that `last` records, before scoring
MergedRow ==
    LET j == job[last.proc]
    IN  normalize_row(j.rows[j.i - 1], SrcOf(j.source)).out

RECURSIVE Count(_, _)
Count(s, a) == IF s = <<>> THEN 0 ELSE (IF Head(s) = a THEN 1 ELSE 0) + Count(Tail(s), a)

\* C22: with scoring-if-missing on, a row without a score is stored with the
\* score of score_row on the normalized row and the first 18 reason codes
\* joined; a row with a score of its own, and every row when scoring is off,
\* is stored with its own score and reason.
C22_ScoreIfMissing ==
    last.op = "merge" =>
        LET j == job[last.proc]
            stored == RowOf(leads, last.id)
            sr == score_row(MergedRow)
            n == Len(sr.reasons)
        IN  IF j.csm /\ j.score_fn = "score_row" /\ to_int(MergedRow["score"]).t = "none"
            THEN /\ stored.score = I(sr.score)
                 /\ stored.reason =
                       S(Join(SubSeq(sr.reasons, 1, IF n < 18 THEN n ELSE 18),
                              <<" ", "|", " ">>))
                 /\ Count(stored.reason.s, "|") <= 17
            ELSE /\ stored.score = to_int(MergedRow["score"])
                 /\ stored.reason = S(Strip(Or(MergedRow["reason"], E).s))

\* a row with 21 reason codes and no score is stored with 18 of them, over a
\* lead that was stored with a score and a reason of its own
C22_Witness ==
    /\ last.op = "merge" /\ last.existed /\ last.before.reason = S(<<"r">>)
    /\ job[last.proc].csm
    /\ Len(score_row(MergedRow).reasons) > 18
    /\ Count(RowOf(leads, last.id).reason.s, "|") = 17

---------------------------------------------------------------------------
(* two ingestion jobs on the shared connection, each with one batch of     *)
(* rows for the same (source, handle)                                      *)

RaceRows == {RowA1, RowA2, RowA3}
RaceBatches == UNION {[1..k -> RaceRows] : k \in 1..MaxBatchLen}

NextRace ==
    \/ Tick
    \/ \E p \in Procs :
          \/ /\ pc[p] = "idle"
             /\ \E rows \in RaceBatches : StartUpsert(p, rows, S(<<"x">>), <<FALSE, "None">>)
          \/ UpsertRow(p)
          \/ ReturnUpsert(p)

SpecRace == Init /\ [][NextRace]_vars

\* the table after the rows of one batch, merged in order into tbl
RECURSIVE Ingested(_, _, _)
Ingested(tbl, rows, src) ==
    IF rows = <<>> THEN tbl
    ELSE LET r2 == normalize_row(Head(rows), src).out
             x == NewLead(Len(tbl) + 1, src, HandleOf(r2),
                          Strip(Or(r2["profile_url"], E).s), r2, 0)
         IN  Ingested(Upsert(tbl, x), Tail(rows), src)

\* the interleavings of two batches that keep the order of each
RECURSIVE Shuffles(_, _)
Shuffles(a, b) ==
    IF a = <<>> THEN {b}
    ELSE IF b = <<>> THEN {a}
    ELSE {<<Head(a)>> \o t : t \in Shuffles(Tail(a), b)}
         \cup {<<Head(b)>> \o t : t \in Shuffles(a, Tail(b))}

DataCols == KeepCols \cup OverwriteText \cup OverwriteInt
Data(lead) == [c \in DataCols |-> lead[c]]

\* both jobs have merged all their rows and neither has returned yet
BothMerged ==
    \A p \in Procs : pc[p] = "loop" /\ job[p].rows # <<>> /\ job[p].i > Len(job[p].rows)

\* what one job alone stores
PureOutput(p) == Data(Ingested(<<>>, job[p].rows, <<"x">>)[1])

\* C23: after two interleaved batches for the same (source, handle), the
\* stored lead is the outcome of merging their rows one at a time in some
\* interleaving: each always-overwritten field has the value of the row
\* merged last, which is the last row of one of the batches, and each
\* keep-if-non-empty field the value of a row of either batch.
C23_LastWriterWins ==
    BothMerged =>
        /\ Len(leads) = 1
        /\ \E s \in Shuffles(job["t1"].rows, job["t2"].rows) :
              Data(leads[1]) = Data(Ingested(<<>>, s, <<"x">>)[1])
        /\ \E p \in Procs :
              \A c \in OverwriteText \cup OverwriteInt : leads[1][c] = PureOutput(p)[c]
        /\ \A c \in KeepCols :
              \E p \in Procs : \E k \in 1..Len(job[p].rows) :
                 leads[1][c] = Ingested(<<>>, <<job[p].rows[k]>>, <<"x">>)[1][c]

\* RowA1, RowA3, RowA2 merged in this order, RowA3 by the other job: the
\* stored lead is the output of neither job
C23_Witness ==
    /\ BothMerged
    /\ job["t1"].rows = <<RowA1, RowA2>> /\ job["t2"].rows = <<RowA3>>
    /\ leads[1].website = S(<<"v">>) /\ leads[1].name = E
    /\ leads[1].email = S(<<"e", "@x.yz">>)
    /\ \A p \in Procs : Data(leads[1]) # PureOutput(p)

---------------------------------------------------------------------------
(* meta_api.graph_get: one call                                            *)

MaxRetries == 5

RECURSIVE Pow2(_)
Pow2(n) == IF n = 0 THEN 1 ELSE 2 * Pow2(n - 1)

\* lines 17-19: min(cap, base * (2**attempt)) with base 1.0 and cap 20.0
sleep_s(attempt) == Min2(20, Pow2(attempt))

\* what urlopen, resp.read and json.loads give for one request: a JSON
\* object, a JSON object with an "error" member, JSON that is no object, no
\* JSON at all, an HTTPError with its code, or a URLError
HttpCodes == {304, 400, 404, 429, 500, 503}
GraphResponses ==
    {[kind |-> k, code |-> 200] : k \in {"payload", "error_payload", "not_dict", "not_json"}}
    \cup {[kind |-> "HTTPError", code |-> c] : c \in HttpCodes}
    \cup {[kind |-> "URLError", code |-> 0]}

GrIdle == [stage |-> "off", token |-> FALSE, max_retries |-> 0, attempt |-> 0, requests |-> 0,
           slept |-> <<>>, retried |-> {}, err |-> ""]

InitGraph ==
    /\ leads = <<>>
    /\ seq = 0
    /\ clock = 1
    /\ pc = [p \in Procs |-> "idle"]
    /\ job = [p \in Procs |-> NoJob]
    /\ last = NoLast
    /\ ops = 0
    /\ srv = NoSrv
    /\ nin = [row |-> <<>>, source |-> None]
    /\ nout = [stage |-> "off", src |-> <<>>, raised |-> FALSE, out |-> NoOut,
               handle |-> <<>>, persist |-> FALSE]
    /\ aud = NoAud
    /\ sc = NoSc
    /\ \E token \in BOOLEAN, max_retries \in {-1} \cup 0..MaxRetries :
          gr = [GrIdle EXCEPT !.stage = "call", !.token = token, !.max_retries = max_retries]

\* lines 38-47: the token check and the URL
GraphGetBegin ==
    /\ gr.stage = "call"
    /\ gr' = IF ~gr.token THEN [gr EXCEPT !.stage = "raised", !.err = "MetaApiError"]
             ELSE [gr EXCEPT !.stage = "loop"]
    /\ UNCHANGED <<leads, seq, clock, pc, job, last, ops, nin, nout, aud, sc, srv>>

\* lines 50-77: one iteration of the for loop. The MetaApiError raised in
\* the try body for an error payload or a payload that is no dict is an
\* Exception, so the second except clause catches it.
GraphGetAttempt(resp) ==
    /\ gr.stage = "loop"
    /\ gr.attempt <= gr.max_retries
    /\ gr' =
         IF resp.kind = "payload"
         THEN [gr EXCEPT !.stage = "ret", !.requests = @ + 1]
         ELSE IF resp.kind = "HTTPError" /\ 400 <= resp.code /\ resp.code < 500
                 /\ resp.code # 429
         THEN [gr EXCEPT !.stage = "raised", !.err = "MetaApiError", !.requests = @ + 1]
         ELSE [gr EXCEPT !.requests = @ + 1, !.attempt = @ + 1,
                         !.slept = Append(@, sleep_s(gr.attempt)),
                         !.retried = @ \cup {resp}]
    /\ UNCHANGED <<leads, seq, clock, pc, job, last, ops, nin, nout, aud, sc, srv>>

\* line 79: the loop is exhausted
GraphGetExhausted ==
    /\ gr.stage = "loop"
    /\ gr.attempt > gr.max_retries
    /\ gr' = [gr EXCEPT !.stage = "raised", !.err = "MetaApiError"]
    /\ UNCHANGED <<leads, seq, clock, pc, job, last, ops, nin, nout, aud, sc, srv>>

NextGraph ==
    \/ GraphGetBegin
    \/ \E resp \in GraphResponses : GraphGetAttempt(resp)
    \/ GraphGetExhausted

SpecGraph == InitGraph /\ [][NextGraph]_vars

\* 429, 5xx and network failures
Transient(resp) ==
    \/ resp.kind = "URLError"
    \/ resp.kind = "HTTPError" /\ (resp.code = 429 \/ (500 <= resp.code /\ resp.code < 600))

\* C27: graph_get ends with a payload or a MetaApiError after at most
\* max_retries + 1 requests; a 4xx other than 429 is not retried; only 429,
\* 5xx and network failures are retried, after 1, 2, 4, 8, ... seconds
\* capped at 20.
C27_RetriesOnlyTransient ==
    /\ gr.stage \in {"ret", "raised"} =>
          /\ gr.requests <= gr.max_retries + 1
          /\ gr.stage = "raised" => gr.err = "MetaApiError"
    /\ gr.stage # "off" =>
          /\ \A resp \in gr.retried : Transient(resp)
          /\ \A k \in 1..Len(gr.slept) : gr.slept[k] = Min2(20, Pow2(k - 1))

---------------------------------------------------------------------------
(* The run endpoints of main.py and the jobs they start                    *)
(* srv.lock is _lock (0, or the request whose handler holds it),           *)
(* srv.maps_lock is _maps_lock, srv.runs the runs table with the state of  *)
(* the thread of each run, srv.reqs the requests received so far.          *)

MaxRequests == 3

RunKinds == {"discover", "audit-websites", "maps-scrape", "ig-commenters"}

\* what happens inside `with _lock`: the handler returns the run, or
\* int()/float() of a payload value raises, or db.create_run raises, or
\* Thread.start raises
HandlerOutcomes == {"ok", "bad_params", "create_raises", "start_raises"}

InitRuns ==
    /\ leads = <<>>
    /\ seq = 0
    /\ clock = 1
    /\ pc = [p \in Procs |-> "idle"]
    /\ job = [p \in Procs |-> NoJob]
    /\ last = NoLast
    /\ ops = 0
    /\ gr = NoGr
    /\ nin = [row |-> <<>>, source |-> None]
    /\ nout = [stage |-> "off", src |-> <<>>, raised |-> FALSE, out |-> NoOut,
               handle |-> <<>>, persist |-> FALSE]
    /\ aud = NoAud
    /\ sc = NoSc
    /\ srv = [lock |-> 0, maps_lock |-> FALSE, runs |-> <<>>, reqs |-> <<>>]

\* a POST to one of the four run endpoints arrives
Request(kind) ==
    /\ Len(srv.reqs) < MaxRequests
    /\ srv' = [srv EXCEPT !.reqs = Append(@,
                  [kind |-> kind, stage |-> IF kind = "maps-scrape" THEN "acquire" ELSE "wait",
                   resp |-> 0, run |-> 0, acquired |-> FALSE])]
    /\ UNCHANGED <<leads, seq, clock, pc, job, last, ops, nin, nout, aud, sc, gr>>

MapsAcquired_Always(maps_lock) == TRUE
\* line 337: _maps_lock.acquire(blocking=False)
MapsAcquired(maps_lock) == ~maps_lock

\* lines 337-338 of api_run_maps_scrape
MapsAcquire(r) ==
    /\ r \in 1..Len(srv.reqs)
    /\ srv.reqs[r].stage = "acquire"
    /\ srv' = IF MapsAcquired(srv.maps_lock)
              THEN [srv EXCEPT !.maps_lock = TRUE, !.reqs[r].stage = "wait",
                               !.reqs[r].acquired = TRUE]
              ELSE [srv EXCEPT !.reqs[r].stage = "done", !.reqs[r].resp = 409]
    /\ UNCHANGED <<leads, seq, clock, pc, job, last, ops, nin, nout, aud, sc, gr>>

\* with _lock: (entry)
LockAcquire(r) ==
    /\ r \in 1..Len(srv.reqs)
    /\ srv.reqs[r].stage = "wait"
    /\ srv.lock = 0
    /\ srv' = [srv EXCEPT !.lock = r, !.reqs[r].stage = "in"]
    /\ UNCHANGED <<leads, seq, clock, pc, job, last, ops, nin, nout, aud, sc, gr>>

\* the body of `with _lock`: params, db.create_run, Thread(...).start(), the
\* response; _lock is released on the way out, also by an exception
HandlerBody(r, outcome) ==
    /\ r \in 1..Len(srv.reqs)
    /\ srv.reqs[r].stage = "in"
    /\ srv' =
         [srv EXCEPT
            !.lock = 0,
            !.reqs[r].stage = "done",
            !.reqs[r].resp = IF outcome = "ok" THEN 200 ELSE 500,
            !.reqs[r].run = IF outcome \in {"ok", "start_raises"} THEN Len(srv.runs) + 1 ELSE 0,
            !.runs = IF outcome \in {"ok", "start_raises"}
                     THEN Append(@, [kind |-> srv.reqs[r].kind, status |-> "running",
                                     thread |-> IF outcome = "ok" THEN "exec" ELSE "none"])
                     ELSE @]
    /\ UNCHANGED <<leads, seq, clock, pc, job, last, ops, nin, nout, aud, sc, gr>>

\* the try / except of a job: db.finish_run with "ok", or with "error" when
\* the body raised
JobFinish(j, status) ==
    /\ j \in 1..Len(srv.runs)
    /\ srv.runs[j].thread = "exec"
    /\ srv' = [srv EXCEPT !.runs[j].status = status,
                          !.runs[j].thread =
                              IF srv.runs[j].kind = "maps-scrape" THEN "finally" ELSE "done"]
    /\ UNCHANGED <<leads, seq, clock, pc, job, last, ops, nin, nout, aud, sc, gr>>

\* lines 176-182: the finally of _maps_job
JobFinally(j) ==
    /\ j \in 1..Len(srv.runs)
    /\ srv.runs[j].thread = "finally"
    /\ srv' = [srv EXCEPT !.maps_lock = FALSE, !.runs[j].thread = "done"]
    /\ UNCHANGED <<leads, seq, clock, pc, job, last, ops, nin, nout, aud, sc, gr>>

NextRuns ==
    \/ \E kind \in RunKinds : Request(kind)
    \/ \E r \in 1..MaxRequests :
          \/ MapsAcquire(r)
          \/ LockAcquire(r)
          \/ \E outcome \in HandlerOutcomes : HandlerBody(r, outcome)
    \/ \E j \in 1..MaxRequests :
          \/ \E status \in {"ok", "error"} : JobFinish(j, status)
          \/ JobFinally(j)

SpecRuns == InitRuns /\ [][NextRuns]_vars

\* every handler and every job thread that can take a step is scheduled
FairRuns ==
    \A r \in 1..MaxRequests :
        /\ WF_vars(MapsAcquire(r))
        /\ WF_vars(LockAcquire(r))
        /\ WF_vars(\E outcome \in HandlerOutcomes : HandlerBody(r, outcome))
        /\ WF_vars(\E status \in {"ok", "error"} : JobFinish(r, status))
        /\ WF_vars(JobFinally(r))

SpecRunsFair == SpecRuns /\ FairRuns

Executing == {j \in 1..Len(srv.runs) : srv.runs[j].thread \in {"exec", "finally"}}

\* C24: no two jobs execute at the same time.
C24_OneJobAtATime == Cardinality(Executing) <= 1

MapsExecuting == {j \in Executing : srv.runs[j].kind = "maps-scrape"}

\* C25: at most one maps-scrape job executes at any time, and a maps-scrape
\* request that finds one executing is answered 409, creates no run and
\* starts no job.
C25_Exclusive == Cardinality(MapsExecuting) <= 1

C25_Rejected ==
    \A r \in 1..MaxRequests :
        (/\ r \in 1..Len(srv.reqs) /\ srv.reqs[r].stage = "acquire"
         /\ MapsExecuting # {} /\ srv'.reqs[r] # srv.reqs[r])
        => /\ srv'.reqs[r].resp = 409 /\ srv'.reqs[r].stage = "done"
           /\ srv'.reqs[r].run = 0
           /\ srv'.runs = srv.runs

C25_MapsExclusive == []C25_Exclusive /\ [][C25_Rejected]_vars

\* one maps job executes, a second maps request was answered 409 and there
\* is one run
C25_Witness ==
    /\ Cardinality(MapsExecuting) = 1
    /\ Len(srv.runs) = 1
    /\ \E r \in 1..Len(srv.reqs) : srv.reqs[r].kind = "maps-scrape" /\ srv.reqs[r].resp = 409

\* C26: the maps lock, once acquired by a request, is eventually released,
\* whatever happens in the handler and in the job.
C26_LockReleased == srv.maps_lock ~> ~srv.maps_lock

RunIs(j, statuses) == j \in 1..Len(srv.runs) /\ srv.runs[j].status \in statuses

\* C30: every run created with status "running" ends with status "ok" or
\* "error", and a run with one of these never changes its status again.
C30_RunsFinish ==
    /\ \A j \in 1..MaxRequests : RunIs(j, {"running"}) ~> RunIs(j, {"ok", "error"})
    /\ [][\A j \in 1..Len(srv.runs) :
             srv.runs[j].status \in {"ok", "error"} => srv'.runs[j].status = srv.runs[j].status]_vars

---------------------------------------------------------------------------
(* The audit sentinel under ingestion, operator edits and audit writes     *)
(* (specification Spec)                                                    *)

C28_NeverCleared ==
    \A k \in 1..Len(leads) :
        leads[k].website_checked_at # None =>
            /\ k <= Len(leads')
            /\ leads'[k].id = leads[k].id
            /\ leads'[k].website_checked_at # None

C28_NotSelected ==
    \A max_sites \in {-1, 1, 25} :
        \A q \in leads_needing_website_audit(leads, max_sites) :
            \A a \in 1..Len(q) : leads[q[a]].website_checked_at = None

\* C28: no ingestion merge, operator edit or audit write clears a
\* website_checked_at that an audit has set, and a lead that has one is
\* never returned by leads_needing_website_audit, also when an ingestion
\* has replaced its website since.
C28_AuditedStaysAudited == []C28_NotSelected /\ [][C28_NeverCleared]_vars

\* an audited lead whose website a later ingestion has replaced: the stored
\* audit is of the website it had before
C28_Witness ==
    /\ IsReMerge
    /\ Cur.website_checked_at # None
    /\ last.before.website = S(<<"w">>) /\ Cur.website = S(<<"v">>)
    /\ Cur.website_final_url = S(<<"https://", "w">>)
    /\ leads_needing_website_audit(leads, 25) = {<<>>}

\* ingestion of single rows, operator edits and audit writes on the leads
\* they store
NextCommute ==
    \/ Tick
    \/ \E p \in Importer, r \in RaceRows : StartUpsert(p, <<r>>, S(<<"x">>), <<FALSE, "None">>)
    \/ \E p \in Importer : UpsertRow(p)
    \/ \E p \in Importer : ReturnUpsert(p)
    \/ \E lead_id \in 1..MaxLeadId, patch \in Patches : update_lead(lead_id, patch)
    \/ \E lead_id \in 1..MaxLeadId, result \in AuditResults(clock) :
          update_website_audit(lead_id, result)

SpecCommute == Init /\ [][NextCommute]_vars

\* the rows an ingestion could bind now for a lead that is stored
IncomingLeads ==
    {x \in {LET r2 == normalize_row(r, <<"x">>).out
            IN  NewLead(seq + 1, <<"x">>, HandleOf(r2), Strip(Or(r2["profile_url"], E).s),
                        r2, clock) : r \in RaceRows} :
        Conflicts(leads, x) # {}}

StoredIds == {leads[k].id : k \in 1..Len(leads)}

\* C29: on a stored lead, an ingestion merge, an operator edit and an audit
\* write commute pairwise: the table after two operations of different
\* kinds is the same in either order.
C29_Commute ==
    /\ \A x \in IncomingLeads : \A id \in StoredIds : \A patch \in Patches :
          Upsert(LeadUpdated(leads, id, patch), x) = LeadUpdated(Upsert(leads, x), id, patch)
    /\ \A x \in IncomingLeads : \A id \in StoredIds : \A result \in AuditResults(clock) :
          Upsert(AuditWritten(leads, id, result), x) = AuditWritten(Upsert(leads, x), id, result)
    /\ \A id \in StoredIds : \A patch \in Patches : \A result \in AuditResults(clock) :
          LeadUpdated(AuditWritten(leads, id, result), id, patch)
             = AuditWritten(LeadUpdated(leads, id, patch), id, result)

\* a lead that was ingested, audited and then edited, for which a further
\* row can come in
C29_Witness ==
    /\ last.op = "update_lead" /\ last.existed /\ last.res = "lead"
    /\ Cur.website_checked_at # None /\ Cur.status = S(<<"won">>)
    /\ \E x \in IncomingLeads : Upsert(leads, x) # leads
====
